---- MODULE Spec2Model ----
(***************************************************************************)
(* Model of the task orchestration core of the email analysis backend:     *)
(*   backend/task_manager.py  the in-memory task store (_tasks)            *)
(*   backend/workflow.py      run_analysis_workflow and _create_batches    *)
(*   backend/email_service.py strip_metadata_with_llm (stage 1)            *)
(*   backend/llm_service.py   analyze_with_llm, parse_markdown_to_json     *)
(*   backend/prompts.py       get_prompt                                   *)
(*   backend/main.py          start_analysis (create task, start worker)   *)
(*                                                                         *)
(* Threads.  Every task has one worker thread (FastAPI BackgroundTasks     *)
(* runs the synchronous run_analysis_workflow in the thread pool); the     *)
(* worker of task t is thread t.  Callers are the other threads that use   *)
(* the store's public functions.  The store has no lock, so a store call   *)
(* is a sequence of steps (existence check, one step per field write, the  *)
(* timestamp write) between which other threads may run.                   *)
(***************************************************************************)
EXTENDS Integers, Sequences, FiniteSets, TLC

(***************************************************************************)
(* Bounds of the model.                                                    *)
(***************************************************************************)
\* Most items a fetch returns.
MaxItems == 3

\* Most records of a result list that callers of the store append to.
MaxResults == 2

\* Most times the clock advances, by DefaultHours each time.
MaxTicks == 1

\* Task identifiers (uuid4 strings in the code); the worker of t is thread t.
TaskIds == {"t1", "t2"}

\* batch_size values of a request (pydantic accepts any int).
BatchSizes == {-1, 0, 1, 2}

\* The threads, other than the workers, that call the store's functions.
Callers == {"c1", "c2"}

Threads == TaskIds \cup Callers

\* Conversation identifiers of fetched items.
ThreadIds == {"A", "B"}

None == "<None>"

VARIABLES
    tasks,   \* _tasks: task id -> task dict (its "results" holds a list reference)
    order,   \* the entries of the dict _tasks in insertion order, deleted ones marked
    heap,    \* the result list objects: list reference -> sequence of result dicts
    now,     \* datetime.now(), in hours
    wk,      \* per task: the local state of its run_analysis_workflow call
    frame,   \* per thread: the store call it is in, or its outcome
    held     \* per caller: the value its last get_task returned

vars == <<tasks, order, heap, now, wk, frame, held>>

(***************************************************************************)
(* Values.                                                                 *)
(***************************************************************************)
\* Progress with the batches still to do in place of the batches done.
ProgressCountsDown(done, total) == [done |-> total - done, total |-> total]

\* f"{done}/{total}": the progress string, kept as its two numbers.
Progress(done, total) == [done |-> done, total |-> total]

Min(a, b) == IF a < b THEN a ELSE b

\* items[i:j] with the end of the slice taken one item too far.
SliceOneMore(items, i, j) == SubSeq(items, i + 1, Min(j + 1, Len(items)))

\* items[i:j] of Python, i and j 0-based, j cut to len(items).
Slice(items, i, j) == SubSeq(items, i + 1, Min(j, Len(items)))

\* The loop of _create_batches for batch_size # 0: i runs over range(0, len(items), batch_size),
\* which is empty for a negative step.
RECURSIVE BatchLoop(_, _, _, _)
BatchLoop(items, batch_size, i, batches) ==
    IF batch_size < 0 \/ i >= Len(items)
    THEN batches
    ELSE BatchLoop(items, batch_size, i + batch_size,
                   Append(batches, Slice(items, i, i + batch_size)))

\* _create_batches with an empty batch added after the last one.
CreateBatchesEmptyTail(items, batch_size) ==
    Append(BatchLoop(items, batch_size, 0, <<>>), <<>>)

\* _create_batches(items, batch_size), for batch_size # 0 (range raises ValueError on step 0).
CreateBatches(items, batch_size) == BatchLoop(items, batch_size, 0, <<>>)

\* len(set(msg.get("thread_id", "") for msg in batch))
UniqueThreads(batch) == Cardinality({batch[i] : i \in 1..Len(batch)})

\* The item sequences a fetch can return: at most MaxItems items, the items of one
\* conversation contiguous (fetch_emails flattens conversation by conversation).
RECURSIVE SeqsUpTo(_, _)
SeqsUpTo(S, n) ==
    IF n = 0 THEN {<<>>}
    ELSE LET shorter == SeqsUpTo(S, n - 1)
         IN  shorter \cup {Append(s, x) : s \in {r \in shorter : Len(r) = n - 1}, x \in S}

Contiguous(s) ==
    \A i, j \in 1..Len(s) : (i < j /\ s[i] = s[j]) => \A k \in i..j : s[k] = s[i]

FetchResults == {s \in SeqsUpTo(ThreadIds, MaxItems) :
                    Contiguous(s) /\ (s # <<>> => s[1] = "A")}

(***************************************************************************)
(* The store: task_manager.py                                              *)
(***************************************************************************)
\* NewTask with the last-update timestamp left at the epoch.
NewTaskNotStamped(task_id, sender_id, email_limit, batch_size, ref) ==
    [task_id    |-> task_id,
     sender_id  |-> sender_id,
     email_limit |-> email_limit,
     batch_size |-> batch_size,
     status     |-> "processing",
     progress   |-> Progress(0, 0),
     results    |-> ref,
     error      |-> None,
     created_at |-> now,
     updated_at |-> 0]

\* The dict create_task stores under task_id; "results" refers to a fresh list.
NewTask(task_id, sender_id, email_limit, batch_size, ref) ==
    [task_id    |-> task_id,
     sender_id  |-> sender_id,
     email_limit |-> email_limit,
     batch_size |-> batch_size,
     status     |-> "processing",
     progress   |-> Progress(0, 0),
     results    |-> ref,
     error      |-> None,
     created_at |-> now,
     updated_at |-> now]

\* task_id in _tasks
HasTask(task_id) == task_id \in DOMAIN tasks

\* The result list of a stored task.
Results(task_id) == heap[tasks[task_id].results]

NoFrame == [fn |-> "none"]
\* The outcome of a call that returned; call, the frame it returned from, is kept as
\* a history of the call.
Returned(call, value) == [fn |-> "returned", value |-> value, call |-> call]
Raised(exc) == [fn |-> "raised", exc |-> exc]

\* A call update_task(task_id, **updates) about to run; kwargs is the sequence of
\* <<key, value>> pairs in keyword order, updates the pairs still to be written.
UpdateCall(task_id, updates) ==
    [fn |-> "update_task", at |-> "check", task_id |-> task_id, updates |-> updates,
     kwargs |-> updates]

\* A call add_result(task_id, result) about to run.
AddCall(task_id, result) ==
    [fn |-> "add_result", at |-> "check", task_id |-> task_id, result |-> result]

Finished(th) == frame[th].fn \in {"returned", "raised"}

\* update_task without the check of lines 82-84: the lookup of an unknown id raises.
UpdateTaskNoCheck(th) ==
    /\ frame[th].fn = "update_task" /\ frame[th].at = "check"
    /\ frame' = [frame EXCEPT ![th] =
                    IF ~HasTask(frame[th].task_id) THEN Raised("KeyError")
                    ELSE [frame[th] EXCEPT !.at = IF frame[th].updates = <<>> THEN "stamp" ELSE "write"]]
    /\ UNCHANGED <<tasks, order, heap, now, wk, held>>

\* update_task, lines 82-84: the existence check.
UpdateTaskCheck(th) ==
    /\ frame[th].fn = "update_task" /\ frame[th].at = "check"
    /\ frame' = [frame EXCEPT ![th] =
                    IF ~HasTask(frame[th].task_id) THEN Returned(frame[th], FALSE)
                    ELSE [frame[th] EXCEPT !.at = IF frame[th].updates = <<>> THEN "stamp" ELSE "write"]]
    /\ UNCHANGED <<tasks, order, heap, now, wk, held>>

\* UpdateTaskWrite that also resets the task's error at every write.
UpdateTaskWriteClearsError(th) ==
    /\ frame[th].fn = "update_task" /\ frame[th].at = "write"
    /\ LET f == frame[th]
           kv == Head(f.updates)
       IN  IF ~HasTask(f.task_id)
           THEN /\ frame' = [frame EXCEPT ![th] = Raised("KeyError")]
                /\ UNCHANGED tasks
           ELSE /\ tasks' = [tasks EXCEPT ![f.task_id] = [[@ EXCEPT !.error = None] EXCEPT ![kv[1]] = kv[2]]]
                /\ frame' = [frame EXCEPT ![th] =
                                [f EXCEPT !.updates = Tail(@),
                                          !.at = IF Len(f.updates) = 1 THEN "stamp" ELSE "write"]]
    /\ UNCHANGED <<order, heap, now, wk, held>>

\* UpdateTaskWrite that stores a new dict, built from the given field alone, in place
\* of the stored one's progress and error.
UpdateTaskWriteReplaces(th) ==
    /\ frame[th].fn = "update_task" /\ frame[th].at = "write"
    /\ LET f == frame[th]
           kv == Head(f.updates)
       IN  IF ~HasTask(f.task_id)
           THEN /\ frame' = [frame EXCEPT ![th] = Raised("KeyError")]
                /\ UNCHANGED tasks
           ELSE /\ tasks' = [tasks EXCEPT ![f.task_id] =
                                [[@ EXCEPT !.progress = Progress(0, 0), !.error = None]
                                    EXCEPT ![kv[1]] = kv[2]]]
                /\ frame' = [frame EXCEPT ![th] =
                                [f EXCEPT !.updates = Tail(@),
                                          !.at = IF Len(f.updates) = 1 THEN "stamp" ELSE "write"]]
    /\ UNCHANGED <<order, heap, now, wk, held>>

\* UpdateTaskWrite with the value stored under the key in every task of the store.
UpdateTaskWriteEveryTask(th) ==
    /\ frame[th].fn = "update_task" /\ frame[th].at = "write"
    /\ LET f == frame[th]
           kv == Head(f.updates)
       IN  IF ~HasTask(f.task_id)
           THEN /\ frame' = [frame EXCEPT ![th] = Raised("KeyError")]
                /\ UNCHANGED tasks
           ELSE /\ tasks' = [k \in DOMAIN tasks |-> [tasks[k] EXCEPT ![kv[1]] = kv[2]]]
                /\ frame' = [frame EXCEPT ![th] =
                                [f EXCEPT !.updates = Tail(@),
                                          !.at = IF Len(f.updates) = 1 THEN "stamp" ELSE "write"]]
    /\ UNCHANGED <<order, heap, now, wk, held>>

\* update_task, lines 87-88: one iteration, _tasks[task_id][key] = value.
UpdateTaskWrite(th) ==
    /\ frame[th].fn = "update_task" /\ frame[th].at = "write"
    /\ LET f == frame[th]
           kv == Head(f.updates)
       IN  IF ~HasTask(f.task_id)
           THEN /\ frame' = [frame EXCEPT ![th] = Raised("KeyError")]
                /\ UNCHANGED tasks
           ELSE /\ tasks' = [tasks EXCEPT ![f.task_id][kv[1]] = kv[2]]
                /\ frame' = [frame EXCEPT ![th] =
                                [f EXCEPT !.updates = Tail(@),
                                          !.at = IF Len(f.updates) = 1 THEN "stamp" ELSE "write"]]
    /\ UNCHANGED <<order, heap, now, wk, held>>

\* update_task, lines 91-95: the timestamp write, return True.
UpdateTaskStamp(th) ==
    /\ frame[th].fn = "update_task" /\ frame[th].at = "stamp"
    /\ LET f == frame[th]
       IN  IF ~HasTask(f.task_id)
           THEN /\ frame' = [frame EXCEPT ![th] = Raised("KeyError")]
                /\ UNCHANGED tasks
           ELSE /\ tasks' = [tasks EXCEPT ![f.task_id].updated_at = now]
                /\ frame' = [frame EXCEPT ![th] = Returned(f, TRUE)]
    /\ UNCHANGED <<order, heap, now, wk, held>>

\* add_result, lines 109-111: the existence check.
AddResultCheck(th) ==
    /\ frame[th].fn = "add_result" /\ frame[th].at = "check"
    /\ frame' = [frame EXCEPT ![th] =
                    IF ~HasTask(frame[th].task_id) THEN Returned(frame[th], FALSE)
                    ELSE [@ EXCEPT !.at = "append"]]
    /\ UNCHANGED <<tasks, order, heap, now, wk, held>>

\* AddResultAppend with the new record put in front of the list.
AddResultInFront(th) ==
    /\ frame[th].fn = "add_result" /\ frame[th].at = "append"
    /\ LET f == frame[th]
       IN  IF ~HasTask(f.task_id)
           THEN /\ frame' = [frame EXCEPT ![th] = Raised("KeyError")]
                /\ UNCHANGED heap
           ELSE /\ heap' = [heap EXCEPT ![tasks[f.task_id].results] = <<f.result>> \o @]
                /\ frame' = [frame EXCEPT ![th] = [f EXCEPT !.at = "stamp"]]
    /\ UNCHANGED <<tasks, order, now, wk, held>>

\* add_result, line 113: _tasks[task_id]["results"].append(result).
AddResultAppend(th) ==
    /\ frame[th].fn = "add_result" /\ frame[th].at = "append"
    /\ LET f == frame[th]
       IN  IF ~HasTask(f.task_id)
           THEN /\ frame' = [frame EXCEPT ![th] = Raised("KeyError")]
                /\ UNCHANGED heap
           ELSE /\ heap' = [heap EXCEPT ![tasks[f.task_id].results] = Append(@, f.result)]
                /\ frame' = [frame EXCEPT ![th] = [f EXCEPT !.at = "stamp"]]
    /\ UNCHANGED <<tasks, order, now, wk, held>>

\* add_result, lines 114-118: the timestamp write, return True.
AddResultStamp(th) ==
    /\ frame[th].fn = "add_result" /\ frame[th].at = "stamp"
    /\ LET f == frame[th]
       IN  IF ~HasTask(f.task_id)
           THEN /\ frame' = [frame EXCEPT ![th] = Raised("KeyError")]
                /\ UNCHANGED tasks
           ELSE /\ tasks' = [tasks EXCEPT ![f.task_id].updated_at = now]
                /\ frame' = [frame EXCEPT ![th] = Returned(f, TRUE)]
    /\ UNCHANGED <<order, heap, now, wk, held>>

\* create_task, lines 30-48: one store of a new dict under a fresh uuid4 key.
CreateTask(task_id, sender_id, email_limit, batch_size) ==
    /\ task_id \notin DOMAIN heap
    /\ tasks' = (task_id :> NewTask(task_id, sender_id, email_limit, batch_size, task_id)) @@ tasks
    /\ order' = Append(order, task_id)
    /\ heap' = (task_id :> <<>>) @@ heap

\* get_task, lines 61-68: task.copy() is a shallow copy, a new dict with the values of
\* the stored one; its "results" is the reference to the stored list.
\* NoTask stands for the None returned for an unknown id.
NoTask == [task_id |-> None]

GetTask(task_id) == IF HasTask(task_id) THEN tasks[task_id] ELSE NoTask

\* The mark of a deleted entry in the entries of the dict.
Deleted == "<deleted>"

\* del _tasks[task_id]: the entry is cleared in place, the later entries keep their position.
DelTask(task_id) ==
    /\ tasks' = [k \in DOMAIN tasks \ {task_id} |-> tasks[k]]
    /\ order' = [j \in 1..Len(order) |-> IF order[j] = task_id THEN Deleted ELSE order[j]]

\* len(_tasks)
LenTasks == Cardinality(DOMAIN tasks)

\* iter(_tasks.items()), iter(_tasks.values()): the iterator remembers the size of the
\* dict, the number of items it still expects, and its position in the entries.
NewIter == [used |-> LenTasks, len |-> LenTasks, pos |-> 0]

\* The position of the first entry after position i that is not deleted, or 0.
NextLive(i) ==
    LET live == {j \in (i + 1)..Len(order) : order[j] # Deleted}
    IN  IF live = {} THEN 0 ELSE CHOOSE j \in live : \A k \in live : j <= k

\* next(it) of a dict iterator: RuntimeError when the dict changed size since iter(), the
\* end of the iteration, RuntimeError when an entry is found but none is expected, or
\* the key of the next entry.
IterNext(it) ==
    IF it.used # LenTasks THEN [kind |-> "RuntimeError"]
    ELSE IF NextLive(it.pos) = 0 THEN [kind |-> "stop"]
    ELSE IF it.len = 0 THEN [kind |-> "RuntimeError"]
    ELSE [kind |-> "item", key |-> order[NextLive(it.pos)],
          it |-> [it EXCEPT !.pos = NextLive(it.pos), !.len = @ - 1]]

\* cleanup_old_tasks's default age threshold, in hours (line 121).
DefaultHours == 24

\* A call cleanup_old_tasks(hours) at line 135, cutoff_time computed and the scan about
\* to begin; deleted counts the tasks deleted so far.
CleanupCall(hours) ==
    [fn |-> "cleanup_old_tasks", at |-> "scan", cutoff_time |-> now - hours,
     it |-> NewIter, tasks_to_delete |-> <<>>, deleted |-> 0]

\* CleanupScan that compares the last-update timestamp with the cutoff.
CleanupScanByUpdatedAt(th) ==
    /\ frame[th].fn = "cleanup_old_tasks" /\ frame[th].at = "scan"
    /\ LET f == frame[th]
           n == IterNext(f.it)
       IN  frame' = [frame EXCEPT ![th] =
                IF n.kind = "RuntimeError" THEN Raised("RuntimeError")
                ELSE IF n.kind = "stop"
                THEN IF f.tasks_to_delete = <<>> THEN Returned(f, 0) ELSE [f EXCEPT !.at = "delete"]
                ELSE [f EXCEPT !.it = n.it,
                               !.tasks_to_delete =
                                   IF tasks[n.key].updated_at < f.cutoff_time
                                   THEN Append(@, n.key) ELSE @]]
    /\ UNCHANGED <<tasks, order, heap, now, wk, held>>

\* cleanup_old_tasks, lines 135-137: one iteration of the scan over _tasks.items().
CleanupScan(th) ==
    /\ frame[th].fn = "cleanup_old_tasks" /\ frame[th].at = "scan"
    /\ LET f == frame[th]
           n == IterNext(f.it)
       IN  frame' = [frame EXCEPT ![th] =
                IF n.kind = "RuntimeError" THEN Raised("RuntimeError")
                ELSE IF n.kind = "stop"
                THEN IF f.tasks_to_delete = <<>> THEN Returned(f, 0) ELSE [f EXCEPT !.at = "delete"]
                ELSE [f EXCEPT !.it = n.it,
                               !.tasks_to_delete =
                                   IF tasks[n.key].created_at < f.cutoff_time
                                   THEN Append(@, n.key) ELSE @]]
    /\ UNCHANGED <<tasks, order, heap, now, wk, held>>

\* cleanup_old_tasks, lines 140-147: one iteration of the deletion loop, del _tasks[task_id];
\* after the last one the number of deleted tasks is returned.
CleanupDelete(th) ==
    /\ frame[th].fn = "cleanup_old_tasks" /\ frame[th].at = "delete"
    /\ LET f == frame[th]
       IN  IF ~HasTask(Head(f.tasks_to_delete))
           THEN /\ frame' = [frame EXCEPT ![th] = Raised("KeyError")]
                /\ UNCHANGED <<tasks, order>>
           ELSE /\ DelTask(Head(f.tasks_to_delete))
                /\ frame' = [frame EXCEPT ![th] =
                                IF Len(f.tasks_to_delete) = 1 THEN Returned(f, f.deleted + 1)
                                ELSE [f EXCEPT !.tasks_to_delete = Tail(@), !.deleted = @ + 1]]
    /\ UNCHANGED <<heap, now, wk, held>>

\* A call get_all_tasks() at line 157, the comprehension about to begin.
GetAllCall == [fn |-> "get_all_tasks", at |-> "scan", it |-> NewIter, out |-> <<>>]

\* get_all_tasks, line 157: one iteration of the comprehension over _tasks.values().
GetAllScan(th) ==
    /\ frame[th].fn = "get_all_tasks"
    /\ LET f == frame[th]
           n == IterNext(f.it)
       IN  frame' = [frame EXCEPT ![th] =
                IF n.kind = "RuntimeError" THEN Raised("RuntimeError")
                ELSE IF n.kind = "stop" THEN Returned(f, f.out)
                ELSE [f EXCEPT !.it = n.it, !.out = Append(@, GetTask(n.key))]]
    /\ UNCHANGED <<tasks, order, heap, now, wk, held>>

(***************************************************************************)
(* The worker: workflow.py, run_analysis_workflow                          *)
(***************************************************************************)
\* History variables: raised, batch number -> the exception its try block raised;
\* degraded, the batches whose parse_markdown_to_json gave back its input; staged,
\* whether a stage of the pipeline has been called.
IdleWorker ==
    [pc |-> "idle", site |-> "", prompt_ok |-> TRUE, email_limit |-> 0, batch_size |-> 0,
     emails |-> <<>>, total |-> 0, batch_num |-> 0, exc |-> "", cleaned |-> "",
     llm_response |-> "", raised |-> <<>>, degraded |-> {}, staged |-> FALSE]

\* batches[batch_num - 1] of the worker's run.
Batch(w) == CreateBatches(w.emails, w.batch_size)[w.batch_num]

\* BatchResult with the batch's index in the list (from 0) as its ordinal.
BatchResultFromZero(w, parsed_response) ==
    [batch_number          |-> w.batch_num - 1,
     total_batches         |-> w.total,
     messages_in_batch     |-> Len(Batch(w)),
     thread_count_in_batch |-> UniqueThreads(Batch(w)),
     analysis              |-> parsed_response,
     raw_markdown          |-> w.llm_response,
     original_emails       |-> Batch(w),
     processed_at          |-> now]

\* The dict built at lines 220-240.
BatchResult(w, parsed_response) ==
    [batch_number          |-> w.batch_num,
     total_batches         |-> w.total,
     messages_in_batch     |-> Len(Batch(w)),
     thread_count_in_batch |-> UniqueThreads(Batch(w)),
     analysis              |-> parsed_response,
     raw_markdown          |-> w.llm_response,
     original_emails       |-> Batch(w),
     processed_at          |-> now]

\* ErrorResult with the analysis fields of a success record kept beside the error.
ErrorResultWithAnalysis(w) ==
    [batch_number          |-> w.batch_num,
     total_batches         |-> w.total,
     messages_in_batch     |-> Len(Batch(w)),
     thread_count_in_batch |-> UniqueThreads(Batch(w)),
     analysis              |-> w.llm_response,
     raw_markdown          |-> w.llm_response,
     error                 |-> w.exc,
     processed_at          |-> now]

\* The dict built at lines 255-262.
ErrorResult(w) ==
    [batch_number          |-> w.batch_num,
     total_batches         |-> w.total,
     messages_in_batch     |-> Len(Batch(w)),
     thread_count_in_batch |-> UniqueThreads(Batch(w)),
     error                 |-> w.exc,
     processed_at          |-> now]

\* The worker of t makes a store call from call site `site`.
Call(t, w, site, call) ==
    /\ wk' = [wk EXCEPT ![t] = [w EXCEPT !.pc = "call", !.site = site]]
    /\ frame' = [frame EXCEPT ![t] = call]

\* The worker of t goes on at pc, its store call (if any) over.
Goto(t, w, pc) ==
    /\ wk' = [wk EXCEPT ![t] = [w EXCEPT !.pc = pc, !.site = ""]]
    /\ frame' = [frame EXCEPT ![t] = NoFrame]

\* An exception e reaches the handler of the per-batch try (line 250).
RaiseInBatch(t, w, e) ==
    Goto(t, [w EXCEPT !.exc = e, !.cleaned = "", !.llm_response = "",
                      !.raised = (w.batch_num :> e) @@ @], "batch_except")

\* An exception e reaches the handler of the outer try (line 280).
RaiseInWorkflow(t, w, e) ==
    Goto(t, [w EXCEPT !.exc = e, !.cleaned = "", !.llm_response = ""], "outer_except")

\* NextBatch with the task marked failed at the end when some batch had failed.
NextBatchFailsOnError(t, w) ==
    IF w.batch_num < w.total
    THEN Goto(t, [w EXCEPT !.batch_num = @ + 1, !.exc = ""], "combine")
    ELSE Call(t, [w EXCEPT !.exc = ""], "complete",
              UpdateCall(t, << <<"status", IF w.raised = <<>> THEN "completed" ELSE "failed">>,
                               <<"progress", Progress(w.total, w.total)>> >>))

\* The head of the for loop (line 114): the next batch, or after the last one
\* step 5 (lines 268-276), the call update_task(status="completed", progress="N/N").
NextBatch(t, w) ==
    IF w.batch_num < w.total
    THEN Goto(t, [w EXCEPT !.batch_num = @ + 1, !.exc = ""], "combine")
    ELSE Call(t, [w EXCEPT !.exc = ""], "complete",
              UpdateCall(t, << <<"status", "completed">>,
                               <<"progress", Progress(w.total, w.total)>> >>))

\* main.py, start_analysis (lines 155-187): create_task, then the worker is started.
\* prompt_ok: whether the sender's prompt_key is a key of the prompt configuration.
StartAnalysis(t) ==
    /\ wk[t].pc = "idle"
    /\ \E email_limit \in 1..2, batch_size \in BatchSizes, prompt_ok \in BOOLEAN :
        /\ CreateTask(t, "sender", email_limit, batch_size)
        /\ wk' = [wk EXCEPT ![t] = [IdleWorker EXCEPT !.pc = "fetch",
                                                      !.prompt_ok = prompt_ok,
                                                      !.email_limit = email_limit,
                                                      !.batch_size = batch_size]]
    /\ UNCHANGED <<now, frame, held>>

\* Fetch with the update of lines 76-80 made without the error note.
FetchWithoutNote(t) ==
    /\ wk[t].pc = "fetch"
    /\ LET w == wk[t]
       IN  \E ok \in BOOLEAN, emails \in FetchResults :
            /\ UniqueThreads(emails) <= w.email_limit
            /\ IF ~ok THEN RaiseInWorkflow(t, w, "fetch_failed")
               ELSE IF emails = <<>>
               THEN Call(t, w, "no_items",
                         UpdateCall(t, << <<"status", "completed">>,
                                          <<"progress", Progress(0, 0)>> >>))
               ELSE Goto(t, [w EXCEPT !.emails = emails], "save_fetched")
    /\ UNCHANGED <<tasks, order, heap, now, held>>

\* Step 1 (lines 68-82): fetch_emails raises, returns no item, or returns items of at
\* most email_limit conversations.
Fetch(t) ==
    /\ wk[t].pc = "fetch"
    /\ LET w == wk[t]
       IN  \E ok \in BOOLEAN, emails \in FetchResults :
            /\ UniqueThreads(emails) <= w.email_limit
            /\ IF ~ok THEN RaiseInWorkflow(t, w, "fetch_failed")
               ELSE IF emails = <<>>
               THEN Call(t, w, "no_items",
                         UpdateCall(t, << <<"status", "completed">>,
                                          <<"progress", Progress(0, 0)>>,
                                          <<"error", "No messages found from this sender">> >>))
               ELSE Goto(t, [w EXCEPT !.emails = emails], "save_fetched")
    /\ UNCHANGED <<tasks, order, heap, now, held>>

\* AfterNoItems without the return of line 82: the function goes on after the update.
AfterNoItemsFallsThrough(t) ==
    /\ wk[t].pc = "call" /\ wk[t].site = "no_items" /\ Finished(t)
    /\ IF frame[t].fn = "raised"
       THEN RaiseInWorkflow(t, wk[t], frame[t].exc)
       ELSE Goto(t, wk[t], "save_fetched")
    /\ UNCHANGED <<tasks, order, heap, now, held>>

\* Lines 76-82: update_task returned; return.
AfterNoItems(t) ==
    /\ wk[t].pc = "call" /\ wk[t].site = "no_items" /\ Finished(t)
    /\ IF frame[t].fn = "raised"
       THEN RaiseInWorkflow(t, wk[t], frame[t].exc)
       ELSE Goto(t, wk[t], "done")
    /\ UNCHANGED <<tasks, order, heap, now, held>>

\* Lines 86-101: the fetched messages are written to a debug file.
SaveFetched(t) ==
    /\ wk[t].pc = "save_fetched"
    /\ \E written \in BOOLEAN :
        IF written THEN Goto(t, wk[t], "split")
        ELSE RaiseInWorkflow(t, wk[t], "io_error")
    /\ UNCHANGED <<tasks, order, heap, now, held>>

\* Step 2 (lines 104-106): _create_batches; range(0, n, 0) raises ValueError.
Split(t) ==
    /\ wk[t].pc = "split"
    /\ LET w == wk[t]
       IN  IF w.batch_size = 0
           THEN RaiseInWorkflow(t, w, "range_step_zero")
           ELSE Goto(t, [w EXCEPT !.total = Len(CreateBatches(w.emails, w.batch_size))],
                     "load_prompt")
    /\ UNCHANGED <<tasks, order, heap, now, held>>

\* Step 3 (lines 109-111): prompts.get_prompt raises KeyError for a missing key.
LoadPrompt(t) ==
    /\ wk[t].pc = "load_prompt"
    /\ IF wk[t].prompt_ok
       THEN NextBatch(t, wk[t])
       ELSE RaiseInWorkflow(t, wk[t], "prompt_key_not_found")
    /\ UNCHANGED <<tasks, order, heap, now, held>>

\* Lines 118-140: combine_emails, and the combined text is written to a debug file.
Combine(t) ==
    /\ wk[t].pc = "combine"
    /\ \E written \in BOOLEAN :
        IF written THEN Goto(t, wk[t], "stage1")
        ELSE RaiseInBatch(t, wk[t], "io_error")
    /\ UNCHANGED <<tasks, order, heap, now, held>>

\* email_service.strip_metadata_with_llm (lines 488-504): the text the call returns,
\* the cleaned text, or the text it was given when the LLM call raised.
StripMetadata(llm_ok) == IF llm_ok THEN "cleaned" ELSE "combined"

\* Lines 142-161: stage 1, and the cleaned text is written to a debug file.
Stage1(t) ==
    /\ wk[t].pc = "stage1"
    /\ \E llm_ok \in BOOLEAN, written \in BOOLEAN :
        LET w == [wk[t] EXCEPT !.staged = TRUE]
        IN  IF written THEN Goto(t, [w EXCEPT !.cleaned = StripMetadata(llm_ok)], "stage2")
            ELSE RaiseInBatch(t, w, "io_error")
    /\ UNCHANGED <<tasks, order, heap, now, held>>

\* Lines 163-203: stage 2, llm_service.analyze_with_llm raises when the LLM call fails;
\* then the response is written to two debug files.
Stage2(t) ==
    /\ wk[t].pc = "stage2"
    /\ \E llm_ok \in BOOLEAN, written \in BOOLEAN :
        IF ~llm_ok THEN RaiseInBatch(t, wk[t], "llm_failed")
        ELSE IF ~written THEN RaiseInBatch(t, wk[t], "io_error")
        ELSE Goto(t, [wk[t] EXCEPT !.cleaned = "", !.llm_response = "markdown"], "stage3")
    /\ UNCHANGED <<tasks, order, heap, now, held>>

\* parse_markdown_to_json giving an empty text when it cannot structure its input.
ParseMarkdownToJsonOrEmpty(markdown_text, parsed_ok) == IF parsed_ok THEN "json" ELSE ""

\* llm_service.parse_markdown_to_json (lines 166-247): the JSON text, or the markdown
\* it was given when there is no key, the call fails or its output is not JSON.
ParseMarkdownToJson(markdown_text, parsed_ok) == IF parsed_ok THEN "json" ELSE markdown_text

\* Lines 205-242: stage 3, the parsed text is written to a debug file, the batch
\* result is built and add_result is called.
Stage3(t) ==
    /\ wk[t].pc = "stage3"
    /\ \E parsed_ok \in BOOLEAN, written \in BOOLEAN :
        LET w == [wk[t] EXCEPT !.degraded = IF parsed_ok THEN @ ELSE @ \cup {wk[t].batch_num}]
        IN  IF ~written THEN RaiseInBatch(t, w, "io_error")
            ELSE Call(t, w, "batch_add",
                      AddCall(t, BatchResult(w, ParseMarkdownToJson(w.llm_response, parsed_ok))))
    /\ UNCHANGED <<tasks, order, heap, now, held>>

\* Lines 242-246: add_result returned; update_task(progress="k/N") is called.
AfterBatchAdd(t) ==
    /\ wk[t].pc = "call" /\ wk[t].site = "batch_add" /\ Finished(t)
    /\ LET w == wk[t]
       IN  IF frame[t].fn = "raised"
           THEN RaiseInBatch(t, w, frame[t].exc)
           ELSE Call(t, [w EXCEPT !.llm_response = ""], "batch_progress",
                     UpdateCall(t, << <<"progress", Progress(w.batch_num, w.total)>> >>))
    /\ UNCHANGED <<tasks, order, heap, now, held>>

\* Lines 246-248: update_task returned; the loop goes on.
AfterBatchProgress(t) ==
    /\ wk[t].pc = "call" /\ wk[t].site = "batch_progress" /\ Finished(t)
    /\ IF frame[t].fn = "raised"
       THEN RaiseInBatch(t, wk[t], frame[t].exc)
       ELSE NextBatch(t, wk[t])
    /\ UNCHANGED <<tasks, order, heap, now, held>>

\* OuterExcept that only logs the exception: the task is left as it is.
OuterExceptOnlyLogs(t) ==
    /\ wk[t].pc = "outer_except"
    /\ Goto(t, wk[t], "done")
    /\ UNCHANGED <<tasks, order, heap, now, held>>

\* BatchExcept marking the task failed instead of recording the batch's error.
BatchExceptMarksFailed(t) ==
    /\ wk[t].pc = "batch_except"
    /\ Call(t, wk[t], "batch_error_add",
            UpdateCall(t, << <<"status", "failed">>, <<"error", wk[t].exc>> >>))
    /\ UNCHANGED <<tasks, order, heap, now, held>>

\* Lines 250-263: the per-batch handler builds the error result and calls add_result.
BatchExcept(t) ==
    /\ wk[t].pc = "batch_except"
    /\ Call(t, wk[t], "batch_error_add", AddCall(t, ErrorResult(wk[t])))
    /\ UNCHANGED <<tasks, order, heap, now, held>>

\* AfterBatchErrorAdd with break in place of continue: the loop ends at a failed batch.
AfterBatchErrorAddBreak(t) ==
    /\ wk[t].pc = "call" /\ wk[t].site = "batch_error_add" /\ Finished(t)
    /\ IF frame[t].fn = "raised"
       THEN RaiseInWorkflow(t, wk[t], frame[t].exc)
       ELSE Call(t, [wk[t] EXCEPT !.exc = ""], "complete",
                 UpdateCall(t, << <<"status", "completed">>,
                                  <<"progress", Progress(wk[t].total, wk[t].total)>> >>))
    /\ UNCHANGED <<tasks, order, heap, now, held>>

\* Lines 263-266: add_result returned; continue.
AfterBatchErrorAdd(t) ==
    /\ wk[t].pc = "call" /\ wk[t].site = "batch_error_add" /\ Finished(t)
    /\ IF frame[t].fn = "raised"
       THEN RaiseInWorkflow(t, wk[t], frame[t].exc)
       ELSE NextBatch(t, wk[t])
    /\ UNCHANGED <<tasks, order, heap, now, held>>

\* Lines 272-278: update_task(status="completed", ...) returned; the function ends.
AfterComplete(t) ==
    /\ wk[t].pc = "call" /\ wk[t].site = "complete" /\ Finished(t)
    /\ IF frame[t].fn = "raised"
       THEN RaiseInWorkflow(t, wk[t], frame[t].exc)
       ELSE Goto(t, wk[t], "done")
    /\ UNCHANGED <<tasks, order, heap, now, held>>

\* OuterExcept that marks the task failed and drops the exception's message.
OuterExceptNoMessage(t) ==
    /\ wk[t].pc = "outer_except"
    /\ Call(t, wk[t], "failed", UpdateCall(t, << <<"status", "failed">> >>))
    /\ UNCHANGED <<tasks, order, heap, now, held>>

\* Lines 280-289: the outer handler calls update_task(status="failed", error=str(e)).
OuterExcept(t) ==
    /\ wk[t].pc = "outer_except"
    /\ Call(t, wk[t], "failed",
            UpdateCall(t, << <<"status", "failed">>, <<"error", wk[t].exc>> >>))
    /\ UNCHANGED <<tasks, order, heap, now, held>>

\* Lines 285-291: update_task returned and the function ends, or it raised and the
\* exception leaves run_analysis_workflow.
AfterFailed(t) ==
    /\ wk[t].pc = "call" /\ wk[t].site = "failed" /\ Finished(t)
    /\ IF frame[t].fn = "raised"
       THEN Goto(t, [wk[t] EXCEPT !.exc = frame[t].exc], "crashed")
       ELSE Goto(t, wk[t], "done")
    /\ UNCHANGED <<tasks, order, heap, now, held>>

\* One step of the worker of t.
Worker(t) ==
    \/ Fetch(t) \/ AfterNoItems(t) \/ SaveFetched(t) \/ Split(t) \/ LoadPrompt(t)
    \/ Combine(t) \/ Stage1(t) \/ Stage2(t) \/ Stage3(t)
    \/ AfterBatchAdd(t) \/ AfterBatchProgress(t)
    \/ BatchExcept(t) \/ AfterBatchErrorAdd(t)
    \/ AfterComplete(t) \/ OuterExcept(t) \/ AfterFailed(t)

\* One step of a store call of thread th.
StoreStep(th) ==
    \/ UpdateTaskCheck(th) \/ UpdateTaskWrite(th) \/ UpdateTaskStamp(th)
    \/ AddResultCheck(th) \/ AddResultAppend(th) \/ AddResultStamp(th)

(***************************************************************************)
(* Spec: the program as main.py wires it, serving one request.  The store   *)
(* is empty when the process has started (the startup cleanup finds         *)
(* nothing); the request creates a task and starts its worker.  main.py     *)
(* calls cleanup_old_tasks at startup only.                                 *)
(***************************************************************************)
\* The requests of Spec.
Requests == {"t1"}

Init ==
    /\ tasks = <<>>
    /\ order = <<>>
    /\ heap = <<>>
    /\ now = 0
    /\ wk = [t \in TaskIds |-> IdleWorker]
    /\ frame = [th \in Threads |-> NoFrame]
    /\ held = [c \in Callers |-> NoTask]

Next == \E t \in Requests : StartAnalysis(t) \/ Worker(t) \/ StoreStep(t)

Spec == Init /\ [][Next]_vars

\* Spec with the worker thread scheduled: the thread pool runs a started worker until
\* its function ends, and the fetch and every stage call return or raise.
SpecLive == Spec /\ \A t \in Requests : WF_vars(Worker(t) \/ StoreStep(t))

(***************************************************************************)
(* Callers: threads that use the public functions of task_manager          *)
(* directly, with arguments of their choice.                               *)
(***************************************************************************)
\* The keyword arguments of a caller's update_task.
UpdateChoices ==
    { << <<"status", "completed">>, <<"progress", Progress(1, 1)>> >>,
      << <<"status", "failed">>, <<"error", "error">> >> }

\* The result a caller passes to add_result.
CallerResult == [batch_number |-> 1, analysis |-> "json"]

\* The hours a caller passes to cleanup_old_tasks.
HoursChoices == {0, DefaultHours}

\* What a caller writes into a value that get_task returned to it.
TamperedStatus == "tampered"
TamperedResult == [batch_number |-> 0, tampered |-> TRUE]

Idle(c) == frame[c] = NoFrame

\* create_task(...), one step.
CallerCreate(c) ==
    /\ Idle(c)
    /\ \E t \in TaskIds : CreateTask(t, "sender", 1, 1)
    /\ UNCHANGED <<now, wk, frame, held>>

\* held = get_task(task_id): the lookup and the copy, taken as one step (no step of
\* another thread between them changes which values the copy can have).
CallerGet(c) ==
    /\ Idle(c)
    /\ \E t \in TaskIds : held' = [held EXCEPT ![c] = GetTask(t)]
    /\ UNCHANGED <<tasks, order, heap, now, wk, frame>>

\* held["status"] = ...: a write to a key of the returned dict.
CallerSetField(c) ==
    /\ Idle(c)
    /\ held[c].task_id # None
    /\ held[c].status # TamperedStatus
    /\ held' = [held EXCEPT ![c].status = TamperedStatus]
    /\ UNCHANGED <<tasks, order, heap, now, wk, frame>>

\* held["results"].append(...): a mutation of the list the returned dict refers to.
CallerAppendToResults(c) ==
    /\ Idle(c)
    /\ held[c].task_id # None
    /\ Len(heap[held[c].results]) < MaxResults
    /\ heap' = [heap EXCEPT ![held[c].results] = Append(@, TamperedResult)]
    /\ UNCHANGED <<tasks, order, now, wk, frame, held>>

\* The caller begins update_task(task_id, **updates).
CallerUpdate(c) ==
    /\ Idle(c)
    /\ \E t \in TaskIds, updates \in UpdateChoices :
        frame' = [frame EXCEPT ![c] = UpdateCall(t, updates)]
    /\ UNCHANGED <<tasks, order, heap, now, wk, held>>

\* The caller begins add_result(task_id, result).
CallerAdd(c) ==
    /\ Idle(c)
    /\ \E t \in TaskIds :
        /\ t \in DOMAIN heap => Len(heap[t]) < MaxResults
        /\ frame' = [frame EXCEPT ![c] = AddCall(t, CallerResult)]
    /\ UNCHANGED <<tasks, order, heap, now, wk, held>>

\* The caller begins cleanup_old_tasks(hours).
CallerCleanup(c) ==
    /\ Idle(c)
    /\ \E hours \in HoursChoices : frame' = [frame EXCEPT ![c] = CleanupCall(hours)]
    /\ UNCHANGED <<tasks, order, heap, now, wk, held>>

\* The caller begins get_all_tasks().
CallerGetAll(c) ==
    /\ Idle(c)
    /\ frame' = [frame EXCEPT ![c] = GetAllCall]
    /\ UNCHANGED <<tasks, order, heap, now, wk, held>>

\* A store call of the caller has returned and the caller goes on.  A caller whose call
\* raised stops there.
CallerReturn(c) ==
    /\ frame[c].fn = "returned"
    /\ frame' = [frame EXCEPT ![c] = NoFrame]
    /\ UNCHANGED <<tasks, order, heap, now, wk, held>>

\* Time passes: the clock advances by the default retention period.
Tick ==
    /\ now < MaxTicks * DefaultHours
    /\ now' = now + DefaultHours
    /\ UNCHANGED <<tasks, order, heap, wk, frame, held>>

(***************************************************************************)
(* SpecEvict: the request of Spec, and a thread that calls                 *)
(* cleanup_old_tasks while the worker runs.                                *)
(***************************************************************************)
Evictors == {"c1"}

NextEvict ==
    \/ Next
    \/ \E c \in Evictors : CallerCleanup(c) \/ CleanupScan(c) \/ CleanupDelete(c) \/ CallerReturn(c)
    \/ Tick

SpecEvict == Init /\ [][NextEvict]_vars

(***************************************************************************)
(* SpecCopy: one caller that creates tasks, writes to them, reads them     *)
(* with get_task and get_all_tasks and mutates what get_task returned.     *)
(***************************************************************************)
Readers == {"c1"}

NextCopy ==
    \E c \in Readers :
        \/ CallerCreate(c) \/ CallerUpdate(c) \/ CallerAdd(c) \/ StoreStep(c)
        \/ CallerGet(c) \/ CallerSetField(c) \/ CallerAppendToResults(c)
        \/ CallerGetAll(c) \/ GetAllScan(c)
        \/ CallerReturn(c)

SpecCopy == Init /\ [][NextCopy]_vars

(***************************************************************************)
(* SpecApi: one caller that uses the functions of the store one call at a  *)
(* time, while time passes.                                                *)
(***************************************************************************)
NextApi ==
    \/ \E c \in Readers :
        \/ CallerCreate(c) \/ CallerUpdate(c) \/ CallerAdd(c) \/ StoreStep(c)
        \/ CallerCleanup(c) \/ CleanupScan(c) \/ CleanupDelete(c)
        \/ CallerGet(c) \/ CallerReturn(c)
    \/ Tick

SpecApi == Init /\ [][NextApi]_vars

(***************************************************************************)
(* SpecUpdate: concurrent callers of create_task and update_task, while    *)
(* time passes.                                                            *)
(***************************************************************************)
NextUpdate ==
    \/ \E c \in Callers :
        \/ CallerCreate(c)
        \/ CallerUpdate(c) \/ UpdateTaskCheck(c) \/ UpdateTaskWrite(c) \/ UpdateTaskStamp(c)
        \/ CallerReturn(c)
    \/ Tick

SpecUpdate == Init /\ [][NextUpdate]_vars

(***************************************************************************)
(* SpecStore: the store alone, with concurrent callers of create_task,      *)
(* update_task, cleanup_old_tasks and get_all_tasks.                        *)
(***************************************************************************)
NextStore ==
    \/ \E c \in Callers :
        \/ CallerCreate(c)
        \/ CallerUpdate(c) \/ UpdateTaskCheck(c) \/ UpdateTaskWrite(c) \/ UpdateTaskStamp(c)
        \/ CallerCleanup(c) \/ CleanupScan(c) \/ CleanupDelete(c)
        \/ CallerGetAll(c) \/ GetAllScan(c)
        \/ CallerReturn(c)
    \/ Tick

SpecStore == Init /\ [][NextStore]_vars

(***************************************************************************)
(* Properties of the workflow, under Spec.                                 *)
(***************************************************************************)
IsFailure(r) == "error" \in DOMAIN r
IsSuccess(r) == "analysis" \in DOMAIN r
Terminal(status) == status \in {"completed", "failed"}

\* The worker has left batch i behind: it is at a later batch, past the loop, or done.
PastBatch(w, i) == i < w.batch_num \/ w.pc = "done" \/ (w.pc = "call" /\ w.site = "complete")

\* C1: a raise while batch i is processed is captured as the error-tagged record of
\* batch i and never reaches the outer handler; the worker goes on, so that at the end
\* every batch 1..N has its own record.
C1_FailureIsolation ==
    \A t \in TaskIds : HasTask(t) =>
        LET w == wk[t]
            res == Results(t)
        IN  /\ \A i \in DOMAIN w.raised :
                /\ w.pc \notin {"outer_except", "crashed"} /\ w.site # "failed"
                /\ PastBatch(w, i) =>
                      /\ i <= Len(res) /\ IsFailure(res[i])
                      /\ res[i].batch_number = i /\ res[i].error = w.raised[i]
            /\ (w.raised # <<>> /\ w.pc = "done") =>
                /\ w.batch_num = w.total
                /\ Len(res) = w.total
                /\ \A j \in 1..w.total : res[j].batch_number = j

C1_Witness ==
    \E t \in TaskIds :
        /\ HasTask(t) /\ wk[t].pc = "done" /\ wk[t].total = 3
        /\ DOMAIN wk[t].raised = {1}
        /\ Len(Results(t)) = 3
        /\ IsFailure(Results(t)[1]) /\ IsSuccess(Results(t)[2]) /\ IsSuccess(Results(t)[3])

\* C2: when batch k+1 begins, the stored progress is "k/N", whether batch k succeeded
\* or failed.
C2_ProgressAfterEveryBatch ==
    \A t \in TaskIds :
        (HasTask(t) /\ wk[t].pc = "combine" /\ wk[t].batch_num >= 2) =>
            tasks[t].progress = Progress(wk[t].batch_num - 1, wk[t].total)

\* The stage-1 LLM call of the current batch failed (strip_metadata_with_llm gave the
\* text back unchanged).
Stage1Failed(w) == w.cleaned = "combined"

\* C3 as stated: a failure of stage 1 or of stage 2 is fatal to the batch, the
\* remaining stages are skipped.
C3_Stage1Or2Fatal ==
    \A t \in TaskIds :
        /\ Stage1Failed(wk[t]) => wk[t].pc \notin {"stage2", "stage3"}
        /\ wk[t].exc = "llm_failed" => wk[t].pc \notin {"stage3"}

\* C3, amended: a raise of stage 2 is fatal to the batch (stage 3 is not run, the
\* batch's record is a failure record with the error and no analysis payload); a
\* failure of the stage-1 LLM call is not: the batch goes on to stage 2 with the
\* text as it was.
C3_Stage2Fatal ==
    \A t \in TaskIds : HasTask(t) =>
        LET w == wk[t]
            res == Results(t)
        IN  /\ w.exc = "llm_failed" =>
                /\ w.pc \in {"batch_except", "call"} /\ w.llm_response = ""
                /\ w.pc = "call" => (w.site = "batch_error_add" /\ w.batch_num \in DOMAIN w.raised)
            /\ \A i \in DOMAIN w.raised :
                (w.raised[i] = "llm_failed" /\ PastBatch(w, i)) =>
                    /\ IsFailure(res[i]) /\ res[i].error = "llm_failed"
                    /\ DOMAIN res[i] \cap {"analysis", "raw_markdown", "original_emails"} = {}
            /\ Stage1Failed(w) =>
                (w.pc = "stage2" /\ w.exc = "" /\ w.batch_num \notin DOMAIN w.raised)

C3_Witness ==
    \E t \in TaskIds :
        /\ HasTask(t) /\ wk[t].pc = "combine" /\ wk[t].batch_num = 2
        /\ 1 \in DOMAIN wk[t].raised /\ wk[t].raised[1] = "llm_failed"
        /\ IsFailure(Results(t)[1]) /\ Results(t)[1].error = "llm_failed"

\* The worker has called fetch_emails.
FetchCalled(w) == w.pc \notin {"idle", "fetch"}

\* C4: with the prompt key missing the task ends failed and no fetch call is made.
C4_MissingPromptFailsBeforeFetch ==
    \A t \in TaskIds : ~wk[t].prompt_ok =>
        /\ ~FetchCalled(wk[t])
        /\ (wk[t].pc = "done" /\ HasTask(t)) => tasks[t].status = "failed"

\* C5: once a batch has failed the task is never failed, and it ends completed with
\* a failure record for exactly the failed batches and success records for the others.
C5_PartialFailureCompletes ==
    \A t \in TaskIds : (HasTask(t) /\ wk[t].raised # <<>>) =>
        LET w == wk[t]
            res == Results(t)
        IN  /\ tasks[t].status # "failed"
            /\ w.pc = "done" =>
                /\ tasks[t].status = "completed"
                /\ Len(res) = w.total
                /\ \A i \in 1..w.total :
                    IF i \in DOMAIN w.raised
                    THEN IsFailure(res[i]) /\ ~IsSuccess(res[i])
                    ELSE IsSuccess(res[i]) /\ ~IsFailure(res[i])

C5_Witness ==
    \E t \in TaskIds :
        /\ HasTask(t) /\ wk[t].pc = "done" /\ tasks[t].status = "completed"
        /\ wk[t].total = 3 /\ DOMAIN wk[t].raised = {1, 3}
        /\ IsSuccess(Results(t)[2])

\* C9: a step taken while a task's status is completed or failed leaves its result
\* sequence as it is.
C9_NoAppendAfterTerminal ==
    [][\A t \in TaskIds :
        (HasTask(t) /\ Terminal(tasks[t].status) /\ t \in DOMAIN tasks') =>
            heap'[tasks'[t].results] = heap[tasks[t].results]]_vars

C9_Witness ==
    \E t \in TaskIds :
        /\ HasTask(t) /\ tasks[t].status = "completed" /\ wk[t].pc = "done"
        /\ Len(Results(t)) = 2 /\ IsFailure(Results(t)[2])

\* C10: a status is processing, completed or failed; a new task is processing; a
\* status changes only from processing, to completed or failed.
C10_StatusLifecycle ==
    [][\A t \in TaskIds :
        /\ t \in DOMAIN tasks' => tasks'[t].status \in {"processing", "completed", "failed"}
        /\ (t \notin DOMAIN tasks /\ t \in DOMAIN tasks') => tasks'[t].status = "processing"
        /\ (t \in DOMAIN tasks /\ t \in DOMAIN tasks' /\ tasks'[t].status # tasks[t].status) =>
              tasks[t].status = "processing"]_vars

C10_Witness ==
    \E t \in TaskIds :
        /\ HasTask(t) /\ tasks[t].status = "failed" /\ wk[t].pc = "done"

(***************************************************************************)
(* Properties of the store under callers and eviction.                     *)
(***************************************************************************)
\* C6: get_task returns an isolated copy: nothing a caller writes into the returned
\* value, its result list included, shows in what the store holds (and so in what a
\* later get_task returns).
C6_ReturnedCopyIsolated ==
    \A t \in DOMAIN tasks :
        /\ tasks[t].status # TamperedStatus
        /\ \A i \in 1..Len(Results(t)) : "tampered" \notin DOMAIN Results(t)[i]

\* C7: when eviction deletes the record of a task whose worker is running, no store
\* call of the worker raises and the worker does not end in an exception.
C7_EvictionIsHarmless ==
    \A t \in Requests : frame[t].fn # "raised" /\ wk[t].pc # "crashed"

\* C8: no store operation of a thread raises, whatever store operations the other
\* threads perform meanwhile.
C8_StoreOperationsSafe ==
    \A c \in Callers : frame[c].fn # "raised"

(***************************************************************************)
(* Further properties of the workflow.                                     *)
(***************************************************************************)
\* C11: every started run reaches a terminal status: from any state in which the
\* worker of a task has been started, a state follows in which the worker has ended
\* and the task's status is completed or failed.
C11_RunTerminates ==
    \A t \in Requests :
        (wk[t].pc # "idle") ~> (wk[t].pc = "done" /\ HasTask(t) /\ Terminal(tasks[t].status))

C11_Witness ==
    \E t \in Requests :
        /\ wk[t].pc = "done" /\ HasTask(t) /\ tasks[t].status = "completed"
        /\ wk[t].total = 3 /\ Len(Results(t)) = 3 /\ DOMAIN wk[t].raised = {2}

NoItems(w) == FetchCalled(w) /\ w.emails = <<>> /\ w.exc = ""

\* C13: when the fetch yields no item the run makes the no-items update and ends: the
\* task ends completed with progress "0/0", an explanatory error note and an empty
\* result sequence, and no stage of the pipeline is called.
C13_NoItemsCompletes ==
    \A t \in TaskIds : (HasTask(t) /\ NoItems(wk[t])) =>
        LET w == wk[t]
        IN  /\ w.pc \in {"call", "done"}
            /\ w.pc = "call" => w.site = "no_items"
            /\ ~w.staged /\ w.batch_num = 0
            /\ Results(t) = <<>>
            /\ w.pc = "done" =>
                  /\ tasks[t].status = "completed"
                  /\ tasks[t].progress = Progress(0, 0)
                  /\ tasks[t].error # None

C13_Witness ==
    \E t \in TaskIds :
        /\ HasTask(t) /\ NoItems(wk[t]) /\ wk[t].pc = "done"
        /\ tasks[t].error = "No messages found from this sender"

\* C14: when the fetch raises, the outer handler is the only thing that runs: no
\* batch is made or processed, the result sequence stays empty, and the task ends
\* failed with the fetch failure message as its error.
C14_FetchFailureFails ==
    \A t \in TaskIds : (HasTask(t) /\ wk[t].exc = "fetch_failed") =>
        LET w == wk[t]
        IN  /\ w.pc \in {"outer_except", "call", "done"}
            /\ w.pc = "call" => w.site = "failed"
            /\ w.emails = <<>> /\ w.total = 0 /\ w.batch_num = 0 /\ ~w.staged
            /\ Results(t) = <<>>
            /\ w.pc = "done" =>
                  /\ tasks[t].status = "failed"
                  /\ tasks[t].error = "fetch_failed"

C14_Witness ==
    \E t \in TaskIds :
        /\ HasTask(t) /\ wk[t].exc = "fetch_failed" /\ wk[t].pc = "done"
        /\ tasks[t].status = "failed" /\ Results(t) = <<>>

\* C15: an exception raised in the orchestration outside the per-batch handler is
\* caught by the outer handler: the run never ends in an exception, and a run that
\* ended through the outer handler left the task failed with the exception's message
\* as its error.
C15_OuterHandlerCatches ==
    \A t \in TaskIds :
        LET w == wk[t]
        IN  /\ w.pc # "crashed"
            /\ (HasTask(t) /\ w.pc = "done" /\ w.exc # "") =>
                  /\ tasks[t].status = "failed"
                  /\ tasks[t].error = w.exc

\* C16: a run that has processed all its N >= 1 batches leaves the task completed with
\* progress "N/N"; and in every state a task that is completed after a non-empty fetch
\* has a progress whose numerator equals its denominator.
C16_CompletedProgressFull ==
    \A t \in TaskIds : (HasTask(t) /\ wk[t].emails # <<>>) =>
        LET w == wk[t]
        IN  /\ (w.pc = "done" /\ w.exc = "" /\ w.total >= 1) =>
                  /\ w.batch_num = w.total
                  /\ tasks[t].status = "completed"
                  /\ tasks[t].progress = Progress(w.total, w.total)
            /\ tasks[t].status = "completed" =>
                  tasks[t].progress.done = tasks[t].progress.total

\* The first half of C16 alone: what the record holds when the run has ended.
C16_AtEndOfRun ==
    \A t \in TaskIds : (HasTask(t) /\ wk[t].emails # <<>> /\ wk[t].pc = "done" /\ wk[t].exc = "") =>
        /\ tasks[t].status = "completed"
        /\ tasks[t].progress = Progress(wk[t].total, wk[t].total)

\* C17: one result record per batch, in processing order: in every state the ordinals
\* of a task's records are 1, 2, ..., k, each record carries the batch count N, k is
\* the number of batches the worker has finished (or that number plus the batch it is
\* recording), and k = N when the run has completed.
C17_OneRecordPerBatchInOrder ==
    \A t \in TaskIds : HasTask(t) =>
        LET w == wk[t]
            res == Results(t)
        IN  /\ \A i \in 1..Len(res) :
                  res[i].batch_number = i /\ res[i].total_batches = w.total
            /\ Len(res) <= w.batch_num /\ w.batch_num <= w.total
            /\ w.batch_num >= 1 => Len(res) >= w.batch_num - 1
            /\ (w.pc = "call" /\ w.site = "complete") \/ (w.pc = "done" /\ w.exc = "") =>
                  Len(res) = w.total

C17_Witness ==
    \E t \in TaskIds :
        /\ HasTask(t) /\ wk[t].pc = "done" /\ wk[t].total = 3
        /\ Len(Results(t)) = 3
        /\ IsSuccess(Results(t)[1]) /\ IsFailure(Results(t)[2]) /\ IsSuccess(Results(t)[3])
        /\ \A i \in 1..3 : Results(t)[i].batch_number = i /\ Results(t)[i].total_batches = 3

(***************************************************************************)
(* Properties of the store's functions, called one at a time (SpecApi).    *)
(***************************************************************************)
\* Thread th is about to run update_task or add_result on an id that is not in the store.
OnMissingTask(th) ==
    /\ frame[th].fn \in {"update_task", "add_result"}
    /\ frame[th].at = "check"
    /\ ~HasTask(frame[th].task_id)

\* C18: update_task and add_result on an id that is not in the store (never created,
\* or evicted) return False at their first step: they raise nothing, leave the store
\* as it is and create no record.
C18_MissingTaskIsNoOp ==
    [][\A th \in Threads :
        (OnMissingTask(th) /\ frame'[th] # frame[th]) =>
            /\ frame'[th].fn = "returned" /\ frame'[th].value = FALSE
            /\ tasks' = tasks /\ order' = order /\ heap' = heap]_vars

\* add_result on an evicted id has returned False, and the store has no record.
C18_Witness ==
    \E c \in Callers :
        /\ frame[c].fn = "returned" /\ frame[c].call.fn = "add_result"
        /\ frame[c].value = FALSE
        /\ frame[c].call.task_id \in DOMAIN heap
        /\ tasks = <<>>

\* The keys among the keyword arguments of an update_task call.
Keys(kwargs) == {kwargs[i][1] : i \in 1..Len(kwargs)}

\* C19: update_task on an existing task changes nothing but the fields it was given and
\* the last-update timestamp of that task (no other field, no other task, no result
\* list), and when it returns, it returns True, every given field holds the given
\* value and the last-update timestamp is the current time.
C19_UpdateSetsGivenFieldsOnly ==
    [][\A th \in Threads :
        (frame[th].fn = "update_task" /\ HasTask(frame[th].task_id) /\ frame'[th] # frame[th]) =>
            LET f == frame[th]
                t == f.task_id
            IN  /\ heap' = heap /\ order' = order
                /\ DOMAIN tasks' = DOMAIN tasks
                /\ \A u \in DOMAIN tasks \ {t} : tasks'[u] = tasks[u]
                /\ \A k \in DOMAIN tasks[t] \ (Keys(f.kwargs) \cup {"updated_at"}) :
                      tasks'[t][k] = tasks[t][k]
                /\ frame'[th].fn = "returned" =>
                      /\ frame'[th].value = TRUE
                      /\ \A i \in 1..Len(f.kwargs) : tasks'[t][f.kwargs[i][1]] = f.kwargs[i][2]
                      /\ tasks'[t].updated_at = now]_vars

\* update_task(t, status="failed", error=...) has returned True on one of two tasks, a
\* day after both were created.
C19_Witness ==
    \E c \in Callers, t, u \in TaskIds :
        /\ frame[c].fn = "returned" /\ frame[c].call.fn = "update_task"
        /\ frame[c].call.task_id = t /\ frame[c].value = TRUE
        /\ t # u /\ HasTask(t) /\ HasTask(u)
        /\ tasks[t].status = "failed" /\ tasks[t].error = "error"
        /\ tasks[t].progress = Progress(0, 0)
        /\ tasks[t].created_at = 0 /\ tasks[t].updated_at = DefaultHours
        /\ tasks[u].status = "processing" /\ tasks[u].updated_at = 0

\* The tasks created before the cutoff of the cleanup_old_tasks call f.
OlderThan(f) == {t \in DOMAIN tasks : tasks[t].created_at < f.cutoff_time}

\* C20: cleanup_old_tasks(hours) removes the tasks created before now - hours and only
\* those: no step of the call changes or removes another task, when it returns no task
\* created before the cutoff is left and the value returned is the number of tasks
\* removed; and get_task never returns a task that is not in the store.
C20_EvictsExactlyTheOld ==
    [][/\ \A th \in Threads :
            (frame[th].fn = "cleanup_old_tasks" /\ frame'[th] # frame[th]) =>
                LET f == frame[th]
                IN  /\ heap' = heap
                    /\ DOMAIN tasks' \subseteq DOMAIN tasks
                    /\ \A t \in DOMAIN tasks \ OlderThan(f) :
                          t \in DOMAIN tasks' /\ tasks'[t] = tasks[t]
                    /\ frame'[th].fn = "returned" =>
                          /\ \A t \in DOMAIN tasks' : ~(tasks'[t].created_at < f.cutoff_time)
                          /\ frame'[th].value = f.it.used - Cardinality(DOMAIN tasks')
       /\ \A c \in Callers :
            held'[c] # held[c] => (held'[c] = NoTask \/ HasTask(held'[c].task_id))]_vars

\* cleanup_old_tasks(0) has returned 1: of two tasks, the one created a day ago (which
\* has a result and was updated since) is removed, the one created now is kept.
C20_Witness ==
    \E c \in Callers, t, u \in TaskIds :
        /\ frame[c].fn = "returned" /\ frame[c].call.fn = "cleanup_old_tasks"
        /\ frame[c].value = 1 /\ frame[c].call.cutoff_time = DefaultHours
        /\ t \in DOMAIN heap /\ ~HasTask(t) /\ heap[t] # <<>>
        /\ HasTask(u) /\ tasks[u].created_at = DefaultHours
        /\ GetTask(t) = NoTask

(***************************************************************************)
(* Properties of the store's functions under concurrent callers.           *)
(***************************************************************************)
\* Thread th is at the write of key k of task t in update_task, or, for k = "updated_at",
\* at its timestamp write.
WritesField(th, t, k) ==
    /\ frame[th].fn = "update_task" /\ frame[th].task_id = t
    /\ \/ frame[th].at = "write" /\ Head(frame[th].updates)[1] = k
       \/ frame[th].at = "stamp" /\ k = "updated_at"

\* The value that write stores.
WrittenValue(th, k) == IF k = "updated_at" THEN now ELSE Head(frame[th].updates)[2]

\* C21: with update_task calls running concurrently, also on the same task, no written
\* field is lost and the last write wins: a field of a stored task changes only in a
\* step that writes that field, the write of a thread leaves the field with the value
\* written, and so every field holds the value of the last write to it.
C21_NoLostUpdate ==
    [][/\ \A t \in DOMAIN tasks \cap DOMAIN tasks' : \A k \in DOMAIN tasks[t] :
            tasks'[t][k] # tasks[t][k] =>
                \E th \in Threads : WritesField(th, t, k) /\ frame'[th] # frame[th]
       /\ \A th \in Threads : \A t \in DOMAIN tasks : \A k \in DOMAIN tasks[t] :
            (WritesField(th, t, k) /\ frame'[th] # frame[th]) =>
                /\ frame'[th].fn # "raised"
                /\ tasks'[t][k] = WrittenValue(th, k)]_vars

\* Two update_task calls on one task overlap: the first has written status and
\* progress and not yet returned, the second has written status and error after that
\* and returned; the record holds the second's status and the fields of both.
C21_Witness ==
    \E c, d \in Callers, t \in TaskIds :
        /\ c # d /\ HasTask(t)
        /\ frame[c].fn = "update_task" /\ frame[c].task_id = t /\ frame[c].at = "stamp"
        /\ frame[c].kwargs[1][2] = "completed"
        /\ frame[d].fn = "returned" /\ frame[d].call.fn = "update_task"
        /\ frame[d].call.task_id = t /\ frame[d].call.kwargs[1][2] = "failed"
        /\ tasks[t].status = "failed" /\ tasks[t].error = "error"
        /\ tasks[t].progress = Progress(1, 1)

\* C22: a step that adds a task to the store adds one task, under an id that was never
\* in the store; the new record has status processing, progress "0/0", an empty result
\* list, no error, both timestamps at the current time and the arguments of the call;
\* and every other task and its result list are unchanged.
C22_CreateAddsOneFreshTask ==
    [][\A t \in DOMAIN tasks' \ DOMAIN tasks :
        /\ t \notin DOMAIN heap
        /\ DOMAIN tasks' = DOMAIN tasks \cup {t}
        /\ tasks'[t].task_id = t
        /\ tasks'[t].sender_id = "sender"
        /\ tasks'[t].email_limit = 1 /\ tasks'[t].batch_size = 1
        /\ tasks'[t].status = "processing"
        /\ tasks'[t].progress = Progress(0, 0)
        /\ tasks'[t].error = None
        /\ heap'[tasks'[t].results] = <<>>
        /\ tasks'[t].created_at = now /\ tasks'[t].updated_at = now
        /\ tasks'[t].created_at <= tasks'[t].updated_at
        /\ \A u \in DOMAIN tasks :
              tasks'[u] = tasks[u] /\ heap'[tasks'[u].results] = heap[tasks[u].results]]_vars

\* A task has been created a day after another one, which was completed and given a
\* result the day before.
C22_Witness ==
    \E t, u \in TaskIds :
        /\ HasTask(t) /\ HasTask(u) /\ order = <<t, u>>
        /\ tasks[t].created_at = 0 /\ tasks[t].updated_at = 0
        /\ tasks[t].status = "completed" /\ Results(t) # <<>>
        /\ tasks[u].created_at = DefaultHours /\ tasks[u].updated_at = DefaultHours
        /\ tasks[u].status = "processing" /\ Results(u) = <<>>
        /\ now = DefaultHours

(***************************************************************************)
(* Properties of the batcher.                                              *)
(***************************************************************************)
\* C23: _create_batches fails fast for every batch_size <= 0: a run with such a batch
\* size and a non-empty fetch gets no list of batches from the split (the split
\* raises), and it ends failed, never completed with zero batches.
C23_NonPositiveBatchSizeFails ==
    \A t \in TaskIds : (HasTask(t) /\ wk[t].batch_size <= 0 /\ wk[t].emails # <<>>) =>
        /\ wk[t].pc \in {"save_fetched", "split", "outer_except", "call", "done"}
        /\ wk[t].pc = "call" => wk[t].site = "failed"
        /\ wk[t].pc = "done" => tasks[t].status = "failed"

\* What C23 says for batch_size = 0 alone.
C23_ZeroBatchSizeFails ==
    \A t \in TaskIds : (HasTask(t) /\ wk[t].batch_size = 0 /\ wk[t].emails # <<>>) =>
        /\ wk[t].pc \in {"save_fetched", "split", "outer_except", "call", "done"}
        /\ wk[t].pc = "call" => wk[t].site = "failed"
        /\ wk[t].pc = "done" => tasks[t].status = "failed"

(***************************************************************************)
(* SpecSplit: _create_batches as a function.  A caller holds a call of     *)
(* _create_batches on any item sequence of at most MaxSplitItems items and *)
(* any batch size from -1 to MaxSplitItems + 1; the one step evaluates it.  *)
(***************************************************************************)
\* Most items of a sequence handed to _create_batches.
MaxSplitItems == 4

SplitSizes == -1..(MaxSplitItems + 1)

\* A call _create_batches(items, batch_size) about to run.
SplitCall(items, batch_size) ==
    [fn |-> "_create_batches", at |-> "call", items |-> items, batch_size |-> batch_size]

\* _create_batches(items, batch_size), the whole call: range(0, len(items), 0) raises
\* ValueError, any other step gives the list of batches.
CreateBatchesStep(c) ==
    /\ frame[c].fn = "_create_batches"
    /\ frame' = [frame EXCEPT ![c] =
            IF frame[c].batch_size = 0
            THEN Raised("ValueError")
            ELSE Returned(frame[c], CreateBatches(frame[c].items, frame[c].batch_size))]
    /\ UNCHANGED <<tasks, order, heap, now, wk, held>>

InitSplit ==
    /\ tasks = <<>>
    /\ order = <<>>
    /\ heap = <<>>
    /\ now = 0
    /\ wk = [t \in TaskIds |-> IdleWorker]
    /\ \E items \in SeqsUpTo(ThreadIds, MaxSplitItems), batch_size \in SplitSizes :
            frame = [th \in Threads |->
                        IF th = "c1" THEN SplitCall(items, batch_size) ELSE NoFrame]
    /\ held = [c \in Callers |-> NoTask]

NextSplit == \E c \in Callers : CreateBatchesStep(c)

SpecSplit == InitSplit /\ [][NextSplit]_vars

\* The concatenation of a sequence of sequences, in order.
RECURSIVE Concat(_)
Concat(seqs) == IF seqs = <<>> THEN <<>> ELSE Head(seqs) \o Concat(Tail(seqs))

\* c's call of _create_batches with a positive batch size has returned.
SplitReturned(c) ==
    /\ frame[c].fn = "returned"
    /\ frame[c].call.fn = "_create_batches"
    /\ frame[c].call.batch_size > 0

\* C24: for every batch_size > 0 and every item sequence, the batches that
\* _create_batches returns, concatenated in order, are the original sequence: the
\* same items in the same order, none lost and none duplicated.
C24_ConcatenationReproducesInput ==
    \A c \in Callers : SplitReturned(c) => Concat(frame[c].value) = frame[c].call.items

\* A split into two batches, the second one shorter than batch_size.
C24_Witness ==
    \E c \in Callers :
        /\ SplitReturned(c)
        /\ Len(frame[c].value) = 2
        /\ Len(frame[c].value[2]) < frame[c].call.batch_size
        /\ frame[c].call.items = <<"A", "B", "B">>

\* C25: for every batch_size > 0 and n items, _create_batches returns
\* ceil(n / batch_size) batches; every batch but the last has exactly batch_size
\* items, the last has between 1 and batch_size items, and no batch is empty.
C25_BatchCountAndSizes ==
    \A c \in Callers : SplitReturned(c) =>
        LET batches == frame[c].value
            n == Len(frame[c].call.items)
            batch_size == frame[c].call.batch_size
        IN  /\ Len(batches) = (n + batch_size - 1) \div batch_size
            /\ \A k \in 1..Len(batches) :
                    /\ Len(batches[k]) >= 1
                    /\ Len(batches[k]) <= batch_size
                    /\ k < Len(batches) => Len(batches[k]) = batch_size

\* A split of 4 items with batch_size 3: two batches, of 3 items and of 1 item.
C25_Witness ==
    \E c \in Callers :
        /\ SplitReturned(c)
        /\ Len(frame[c].call.items) = 4
        /\ frame[c].call.batch_size = 3
        /\ Len(frame[c].value) = 2
        /\ Len(frame[c].value[2]) = 1

(***************************************************************************)
(* The reranker of fetch_emails: email_service.py, lines 246-276.          *)
(* A message is the dict fetch_emails builds, kept to the keys the         *)
(* reranker reads (thread_id, message_number, date) and total_in_thread.   *)
(* A Date header is                                                        *)
(* kept as its zone ("utc": a date with a zone, "none": a date without a   *)
(* zone, "invalid": no RFC 2822 date) and its instant.                     *)
(***************************************************************************)
\* Most conversations of a threads().list() response.
MaxThreads == 3

\* The Date headers of the messages: "Unknown" or any other text that is no date,
\* two instants with a zone and one date without a zone.
DateHeaders ==
    {[zone |-> "invalid", at |-> 0],
     [zone |-> "utc", at |-> 1], [zone |-> "utc", at |-> 2],
     [zone |-> "none", at |-> 1]}

\* email.utils.parsedate_to_datetime(date) raises unless date parses.
Parses(date) == date.zone # "invalid"

\* email.utils.parsedate_to_datetime(date) for a date that parses: an aware datetime
\* for a date with a zone, a naive one for a date without.
ParsedateToDatetime(date) == [aware |-> date.zone = "utc", at |-> date.at]

\* latest = None of _latest_date.
NoDate == [set |-> FALSE, aware |-> TRUE, at |-> 0]

\* dt.min.replace(tzinfo=timezone.utc): an aware datetime before every instant of a header.
DtMinUtc == [aware |-> TRUE, at |-> 0]

\* The loop of _latest_date.  A date that does not parse raises inside the try and is
\* skipped; so is a date whose comparison with latest raises TypeError (a naive
\* datetime against an aware one).
RECURSIVE LatestLoop(_, _)
LatestLoop(messages, latest) ==
    IF messages = <<>>
    THEN latest
    ELSE LET date == Head(messages).date
             parsed == ParsedateToDatetime(date)
             kept == [set |-> TRUE, aware |-> parsed.aware, at |-> parsed.at]
         IN  LatestLoop(Tail(messages),
                 IF ~Parses(date) THEN latest
                 ELSE IF ~latest.set THEN kept
                 ELSE IF parsed.aware # latest.aware THEN latest
                 ELSE IF parsed.at > latest.at THEN kept
                 ELSE latest)

\* _latest_date(messages)
LatestDate(messages) ==
    LET latest == LatestLoop(messages, NoDate)
    IN  IF latest.set THEN [aware |-> latest.aware, at |-> latest.at] ELSE DtMinUtc

\* The grouping loop: thread_groups is the dict in insertion order, as a sequence of
\* entries [tid, msgs].
RECURSIVE GroupLoop(_, _)
GroupLoop(all_messages, thread_groups) ==
    IF all_messages = <<>>
    THEN thread_groups
    ELSE LET msg == Head(all_messages)
             tid == msg.thread_id
         IN  GroupLoop(Tail(all_messages),
                 IF \E k \in 1..Len(thread_groups) : thread_groups[k].tid = tid
                 THEN [k \in 1..Len(thread_groups) |->
                          IF thread_groups[k].tid = tid
                          THEN [thread_groups[k] EXCEPT !.msgs = Append(@, msg)]
                          ELSE thread_groups[k]]
                 ELSE Append(thread_groups, [tid |-> tid, msgs |-> <<msg>>]))

ThreadGroups(all_messages) == GroupLoop(all_messages, <<>>)

\* s with x put in at position n + 1.
InsertAt(s, n, x) == SubSeq(s, 1, n) \o <<x>> \o SubSeq(s, n + 1, Len(s))

\* InsertThread with an entry put before the entries of equal key.
InsertThreadBeforeTies(sorted, entry) ==
    InsertAt(sorted,
             Cardinality({k \in 1..Len(sorted) :
                             LatestDate(sorted[k].msgs).at > LatestDate(entry.msgs).at}),
             entry)

\* One entry more in a list sorted by key, descending: the sort is stable, so the entry
\* goes after every entry whose key is not smaller.
InsertThread(sorted, entry) ==
    InsertAt(sorted,
             Cardinality({k \in 1..Len(sorted) :
                             LatestDate(sorted[k].msgs).at >= LatestDate(entry.msgs).at}),
             entry)

RECURSIVE SortThreadsLoop(_, _)
SortThreadsLoop(entries, sorted) ==
    IF entries = <<>> THEN sorted
    ELSE SortThreadsLoop(Tail(entries), InsertThread(sorted, Head(entries)))

\* sorted(thread_groups.items(), key=lambda x: _latest_date(x[1]), reverse=True), when
\* the keys can be compared.
SortedThreads(thread_groups) == SortThreadsLoop(thread_groups, <<>>)

\* list.sort compares every key with another one, and comparing a naive datetime with
\* an aware one raises TypeError: the sort returns only if all keys are of one kind.
KeysComparable(thread_groups) ==
    \A i, j \in 1..Len(thread_groups) :
        LatestDate(thread_groups[i].msgs).aware = LatestDate(thread_groups[j].msgs).aware

\* The conversations cut to max_results before they are sorted.
TopThreadsAsFetched(thread_groups, max_results) ==
    SortedThreads(Slice(thread_groups, 0, max_results))

\* top_threads = sorted_threads[:max_results], for max_results >= 0.
TopThreads(thread_groups, max_results) ==
    Slice(SortedThreads(thread_groups), 0, max_results)

\* InsertMessage with every message put first.
InsertMessageFirst(sorted, m) == InsertAt(sorted, 0, m)

\* One message more in a list sorted by message_number, ascending and stable.
InsertMessage(sorted, m) ==
    InsertAt(sorted,
             Cardinality({k \in 1..Len(sorted) :
                             sorted[k].message_number <= m.message_number}),
             m)

RECURSIVE SortMessagesLoop(_, _)
SortMessagesLoop(msgs, sorted) ==
    IF msgs = <<>> THEN sorted
    ELSE SortMessagesLoop(Tail(msgs), InsertMessage(sorted, Head(msgs)))

\* sorted(msgs, key=lambda m: m.get("message_number", 1))
SortedMessages(msgs) == SortMessagesLoop(msgs, <<>>)

\* The flattening loop over top_threads.
RECURSIVE Flatten(_)
Flatten(top_threads) ==
    IF top_threads = <<>> THEN <<>>
    ELSE SortedMessages(Head(top_threads).msgs) \o Flatten(Tail(top_threads))

\* The messages fetch_emails makes of one conversation: numbered from 1 in the order
\* of the API response.
ThreadMessages(thread_id, dates) ==
    [k \in 1..Len(dates) |->
        [thread_id |-> thread_id, message_number |-> k, total_in_thread |-> Len(dates),
         date |-> dates[k]]]

\* all_messages after step 3 of fetch_emails, for a response whose i-th conversation
\* has the Date headers response[i]: the conversations one after the other.  Thread ids
\* are only compared for equality, so the i-th conversation gets the id i.
RECURSIVE AllMessages(_, _)
AllMessages(response, i) ==
    IF i > Len(response) THEN <<>>
    ELSE ThreadMessages(i, response[i]) \o AllMessages(response, i + 1)

\* The Date headers of one conversation of the model: one or two messages.
ThreadDates == SeqsUpTo(DateHeaders, 2) \ {<<>>}

\* fetch_emails at line 246, with all_messages built and max_results as requested.
RerankCall(all_messages, max_results) ==
    [fn |-> "fetch_emails", at |-> "rerank", all_messages |-> all_messages,
     max_results |-> max_results]

\* The outcome of a call that raised, with the frame it raised from kept as a history.
RaisedFrom(call, exc) == [fn |-> "raised", exc |-> exc, call |-> call]

\* Lines 246-276 of fetch_emails, and line 294 for an exception of the sort.
Rerank(c) ==
    /\ frame[c].fn = "fetch_emails"
    /\ frame[c].at \in {"rerank", "rerank_output"}
    /\ LET thread_groups == ThreadGroups(frame[c].all_messages)
       IN  frame' = [frame EXCEPT ![c] =
               IF KeysComparable(thread_groups)
               THEN Returned(frame[c],
                             Flatten(TopThreads(thread_groups, frame[c].max_results)))
               ELSE RaisedFrom(frame[c], "Failed to fetch email threads")]
    /\ UNCHANGED <<tasks, order, heap, now, wk, held>>

(***************************************************************************)
(* SpecRerank: the reranker as a function of the fetched messages and the  *)
(* requested count.  The response has at most min(max_results * 3, 100)    *)
(* conversations (the over-fetch of line 154).                             *)
(***************************************************************************)
InitRerank ==
    /\ tasks = <<>>
    /\ order = <<>>
    /\ heap = <<>>
    /\ now = 0
    /\ wk = [t \in TaskIds |-> IdleWorker]
    /\ \E response \in SeqsUpTo(ThreadDates, MaxThreads), max_results \in 1..MaxThreads :
            /\ Len(response) <= Min(max_results * 3, 100)
            /\ frame = [th \in Threads |->
                           IF th = "c1"
                           THEN RerankCall(AllMessages(response, 1), max_results)
                           ELSE NoFrame]
    /\ held = [c \in Callers |-> NoTask]

NextRerank == \E c \in Callers : Rerank(c)

SpecRerank == InitRerank /\ [][NextRerank]_vars

(***************************************************************************)
(* Properties of the reranker.                                             *)
(***************************************************************************)
\* The conversation ids of a message sequence, in the order of first appearance.
RECURSIVE ConversationIds(_)
ConversationIds(messages) ==
    IF messages = <<>> THEN <<>>
    ELSE LET before == ConversationIds(SubSeq(messages, 1, Len(messages) - 1))
             tid == messages[Len(messages)].thread_id
         IN  IF \E k \in 1..Len(before) : before[k] = tid THEN before
             ELSE Append(before, tid)

\* The messages of conversation tid in a message sequence, in its order.
MessagesOf(messages, tid) == SelectSeq(messages, LAMBDA m : m.thread_id = tid)

\* The instant the reranker computes for conversation tid of a call.
RecencyOf(call, tid) == LatestDate(MessagesOf(call.all_messages, tid)).at

\* The place of conversation tid in the fetched sequence.
SourcePosition(call, tid) ==
    CHOOSE k \in 1..Len(ConversationIds(call.all_messages)) :
        ConversationIds(call.all_messages)[k] = tid

\* The instants of the dates of a conversation's messages that parse.
ParseableInstants(msgs) == {msgs[k].date.at : k \in {j \in 1..Len(msgs) : Parses(msgs[j].date)}}

Elements(s) == {s[k] : k \in 1..Len(s)}

\* c's call of the reranker is over / has returned the reranked messages.
RerankDone(c) ==
    /\ frame[c].fn \in {"returned", "raised"}
    /\ "call" \in DOMAIN frame[c]
    /\ frame[c].call.fn = "fetch_emails"

RerankReturned(c) == RerankDone(c) /\ frame[c].fn = "returned"

\* C26: the reranker orders the conversations by their computed most-recent instant,
\* descending, and two conversations of equal most-recent instant keep the order of
\* their first appearance in the fetched sequence.
C26_RankedByRecencyStable ==
    \A c \in Callers : RerankReturned(c) =>
        LET call == frame[c].call
            ids == ConversationIds(frame[c].value)
        IN  \A i, j \in 1..Len(ids) : i < j =>
                /\ RecencyOf(call, ids[i]) >= RecencyOf(call, ids[j])
                /\ RecencyOf(call, ids[i]) = RecencyOf(call, ids[j]) =>
                       SourcePosition(call, ids[i]) < SourcePosition(call, ids[j])

\* The third fetched conversation is the most recent and comes first; the first two
\* have equal instants and follow in their fetched order.
C26_Witness ==
    \E c \in Callers :
        /\ RerankReturned(c)
        /\ ConversationIds(frame[c].value) = <<3, 1, 2>>
        /\ RecencyOf(frame[c].call, 1) = RecencyOf(frame[c].call, 2)
        /\ RecencyOf(frame[c].call, 3) > RecencyOf(frame[c].call, 1)

\* C27: for a requested count L and C fetched conversations the reranker retains
\* exactly min(L, C) conversations, and no dropped conversation has a later computed
\* most-recent instant than a retained one.
C27_RetainsMostRecent ==
    \A c \in Callers : RerankReturned(c) =>
        LET call == frame[c].call
            retained == Elements(ConversationIds(frame[c].value))
            fetched == Elements(ConversationIds(call.all_messages))
        IN  /\ retained \subseteq fetched
            /\ Cardinality(retained) = Min(call.max_results, Cardinality(fetched))
            /\ \A d \in fetched \ retained, r \in retained :
                   RecencyOf(call, d) <= RecencyOf(call, r)

\* Three conversations fetched, one requested: the last fetched one, the most recent,
\* is the one retained.
C27_Witness ==
    \E c \in Callers :
        /\ RerankReturned(c)
        /\ frame[c].call.max_results = 1
        /\ Len(ConversationIds(frame[c].call.all_messages)) = 3
        /\ ConversationIds(frame[c].value) = <<3>>
        /\ RecencyOf(frame[c].call, 3) > RecencyOf(frame[c].call, 1)

\* A conversation of a call none of whose dates parses / with a date that parses.
Undated(call, tid) == ParseableInstants(MessagesOf(call.all_messages, tid)) = {}

\* C28: a conversation none of whose items has a parseable date is ranked after every
\* conversation that has a parseable date, and ranking it never raises.
C28_UndatedRanksLastNeverRaises ==
    \A c \in Callers : RerankDone(c) =>
        LET call == frame[c].call
            fetched == Elements(ConversationIds(call.all_messages))
        IN  (\E u \in fetched : Undated(call, u)) =>
                /\ frame[c].fn = "returned"
                /\ LET ids == ConversationIds(frame[c].value)
                   IN  /\ \A i, j \in 1..Len(ids) :
                              (Undated(call, ids[i]) /\ ~Undated(call, ids[j])) => j < i
                       /\ \A u \in Elements(ids), d \in fetched :
                              (Undated(call, u) /\ ~Undated(call, d)) => d \in Elements(ids)

\* The ranking half of C28, for the calls that returned.
C28_UndatedRanksLastWhenReturned ==
    \A c \in Callers : RerankReturned(c) =>
        LET call == frame[c].call
            fetched == Elements(ConversationIds(call.all_messages))
            ids == ConversationIds(frame[c].value)
        IN  /\ \A i, j \in 1..Len(ids) :
                   (Undated(call, ids[i]) /\ ~Undated(call, ids[j])) => j < i
            /\ \A u \in Elements(ids), d \in fetched :
                   (Undated(call, u) /\ ~Undated(call, d)) => d \in Elements(ids)

Max(S) == CHOOSE x \in S : \A y \in S : y <= x

\* A conversation of a call with a message whose date does not parse and a message
\* whose date parses.
PartlyDated(call, tid) ==
    /\ ~Undated(call, tid)
    /\ \E k \in 1..Len(call.all_messages) :
           /\ call.all_messages[k].thread_id = tid
           /\ ~Parses(call.all_messages[k].date)

\* C29: an item whose date does not parse is skipped when the recency of its
\* conversation is computed: the conversation ranks by the maximum of its parseable
\* dates, it is not discarded (it is retained whenever the requested count covers all
\* fetched conversations), and the ranking is not aborted.
C29_UnparseableDateSkipped ==
    \A c \in Callers : RerankDone(c) =>
        LET call == frame[c].call
            fetched == Elements(ConversationIds(call.all_messages))
        IN  \A t \in fetched : PartlyDated(call, t) =>
                /\ frame[c].fn = "returned"
                /\ RecencyOf(call, t) = Max(ParseableInstants(MessagesOf(call.all_messages, t)))
                /\ Cardinality(fetched) <= call.max_results =>
                       t \in Elements(ConversationIds(frame[c].value))

\* C29 without the clause that the ranking is not aborted.
C29_UnparseableDateSkippedWhenReturned ==
    \A c \in Callers : RerankReturned(c) =>
        LET call == frame[c].call
            fetched == Elements(ConversationIds(call.all_messages))
        IN  \A t \in fetched : PartlyDated(call, t) =>
                /\ RecencyOf(call, t) = Max(ParseableInstants(MessagesOf(call.all_messages, t)))
                /\ Cardinality(fetched) <= call.max_results =>
                       t \in Elements(ConversationIds(frame[c].value))

\* C30: the output of the reranker is exactly the items of the retained conversations,
\* each once: the conversations appear in ranked order, the items of one conversation
\* are contiguous and in ascending message_number, and no item of a dropped
\* conversation appears.
C30_OutputIsRetainedConversationsInOrder ==
    \A c \in Callers : RerankReturned(c) =>
        LET call == frame[c].call
            out == frame[c].value
            ids == ConversationIds(out)
        IN  /\ Contiguous([k \in 1..Len(out) |-> out[k].thread_id])
            /\ \A k \in 1..Len(out) : \A l \in 1..Len(out) :
                   (k < l /\ out[k].thread_id = out[l].thread_id) =>
                       out[k].message_number < out[l].message_number
            /\ \A t \in Elements(ids) :
                   Elements(MessagesOf(out, t)) = Elements(MessagesOf(call.all_messages, t))
            /\ Len(ids) = Min(call.max_results, Len(ConversationIds(call.all_messages)))
            /\ \A i, j \in 1..Len(ids) : i < j =>
                   RecencyOf(call, ids[i]) >= RecencyOf(call, ids[j])
            /\ \A d \in Elements(ConversationIds(call.all_messages)) \ Elements(ids) :
                   \A r \in Elements(ids) : RecencyOf(call, d) <= RecencyOf(call, r)

\* Three conversations fetched, two requested: the output is the two messages of the
\* third conversation, then the two messages of the second, and nothing of the first.
C30_Witness ==
    \E c \in Callers :
        /\ RerankReturned(c)
        /\ Len(ConversationIds(frame[c].call.all_messages)) = 3
        /\ [k \in 1..Len(frame[c].value) |->
               <<frame[c].value[k].thread_id, frame[c].value[k].message_number>>]
           = << <<3, 1>>, <<3, 2>>, <<2, 1>>, <<2, 2>> >>

(***************************************************************************)
(* SpecRerankTwice: the reranker applied to its own output.  A caller      *)
(* whose call of the reranker returned hands the returned messages, with    *)
(* the same requested count, to lines 246-276 a second time.               *)
(***************************************************************************)
\* Lines 246-276 about to run on the messages that c's first call returned; first, the
\* frame of the first call, is kept as a history.
RerankAgain(c) ==
    /\ frame[c].fn = "returned"
    /\ frame[c].call.fn = "fetch_emails"
    /\ frame[c].call.at = "rerank"
    /\ frame' = [frame EXCEPT ![c] =
            [fn |-> "fetch_emails", at |-> "rerank_output",
             all_messages |-> frame[c].value,
             max_results |-> frame[c].call.max_results,
             first |-> frame[c].call]]
    /\ UNCHANGED <<tasks, order, heap, now, wk, held>>

NextRerankTwice == \E c \in Callers : Rerank(c) \/ RerankAgain(c)

SpecRerankTwice == InitRerank /\ [][NextRerankTwice]_vars

\* Every date of the messages parses.
FullyParseable(messages) == \A k \in 1..Len(messages) : Parses(messages[k].date)

\* c's second call, on the output of its first one, is over.
RerankedTwice(c) == RerankDone(c) /\ frame[c].call.at = "rerank_output"

\* C31: reranking is idempotent: the rerank applied to its own output, for
\* conversations whose dates all parse and the same requested count, returns the
\* same item sequence.
C31_RerankIdempotent ==
    \A c \in Callers : (RerankedTwice(c) /\ FullyParseable(frame[c].call.first.all_messages)) =>
        /\ frame[c].fn = "returned"
        /\ frame[c].value = frame[c].call.all_messages

\* A second rerank of three fully parseable conversations, two of them with equal
\* instants, that the first rerank had reordered and cut to two.
C31_Witness ==
    \E c \in Callers :
        /\ RerankedTwice(c)
        /\ frame[c].fn = "returned"
        /\ FullyParseable(frame[c].call.first.all_messages)
        /\ frame[c].call.max_results = 2
        /\ ConversationIds(frame[c].call.first.all_messages) = <<1, 2, 3>>
        /\ ConversationIds(frame[c].value) = <<2, 3>>
        /\ RecencyOf(frame[c].call, 2) = RecencyOf(frame[c].call, 3)

(***************************************************************************)
(* SpecFetch: fetch_emails from the threads().list() call to its return.   *)
(* The Gmail API answers the list call with at most fetch_limit            *)
(* conversations; a conversation of the answer says what its               *)
(* threads().get() call will give: an HttpError, or its messages, each     *)
(* with a Date header with a zone and a payload that parses or makes the    *)
(* extraction raise (a missing "headers" key, a body that is not UTF-8).    *)
(***************************************************************************)
\* The requested counts of the model, on both sides of the ceiling: 3 * 33 = 99.
RequestedCounts == {1, 2, 33, 34}

\* fetch_limit with no ceiling.
FetchLimitUncapped(max_results) == max_results * 3

\* fetch_limit = min(max_results * 3, 100)
FetchLimit(max_results) == Min(max_results * 3, 100)

\* The payloads of the messages of the model.
Payloads ==
    {[parses |-> TRUE, date |-> [zone |-> "utc", at |-> 1]],
     [parses |-> TRUE, date |-> [zone |-> "utc", at |-> 2]],
     [parses |-> FALSE, date |-> [zone |-> "utc", at |-> 1]]}

\* What threads().get() gives for a conversation: an HttpError, or no, one or two messages.
ThreadDetails ==
    {[http_error |-> TRUE, messages |-> <<>>]} \cup
    {[http_error |-> FALSE, messages |-> m] : m \in SeqsUpTo(Payloads, 2)}

\* The number of messages of a conversation that are extracted before one makes the
\* extraction raise.
RECURSIVE ParsedPrefix(_)
ParsedPrefix(messages) ==
    IF messages = <<>> \/ ~Head(messages).parses THEN 0
    ELSE 1 + ParsedPrefix(Tail(messages))

\* The conversation ends in one of the except branches of the loop body.
ThreadFails(detail) ==
    detail.http_error \/ ParsedPrefix(detail.messages) < Len(detail.messages)

\* What the loop body appends to all_messages for a conversation: message_obj of every
\* message up to the first one whose extraction raises (messages[0]["payload"]["headers"]
\* is read before the loop, so a first message without it leaves nothing).
Extracted(thread_id, detail) ==
    SubSeq(ThreadMessages(thread_id, [k \in 1..Len(detail.messages) |-> detail.messages[k].date]),
           1, ParsedPrefix(detail.messages))

\* A call fetch_emails(sender_email, max_results) about to call threads().list().
FetchCall(max_results) == [fn |-> "fetch_emails", at |-> "list", max_results |-> max_results]

\* fetch_emails(...) is called.
CallerFetch(c) ==
    /\ Idle(c)
    /\ \E max_results \in RequestedCounts : frame' = [frame EXCEPT ![c] = FetchCall(max_results)]
    /\ UNCHANGED <<tasks, order, heap, now, wk, held>>

\* Lines 151-170: the list call answers with at most fetch_limit conversations; with
\* none fetch_emails returns [].
ThreadsList(c) ==
    /\ frame[c].fn = "fetch_emails"
    /\ frame[c].at = "list"
    /\ \E threads \in SeqsUpTo(ThreadDetails, MaxThreads) :
        /\ Len(threads) <= FetchLimit(frame[c].max_results)
        /\ frame' = [frame EXCEPT ![c] =
               LET called == [frame[c] EXCEPT !.at = "threads"] @@
                             [fetch_limit |-> FetchLimit(frame[c].max_results),
                              threads |-> threads, i |-> 1, all_messages |-> <<>>]
               IN  IF threads = <<>> THEN Returned(called, <<>>) ELSE called]
    /\ UNCHANGED <<tasks, order, heap, now, wk, held>>

\* Lines 161-164 and 288-294: the list call raises.
ThreadsListFails(c) ==
    /\ frame[c].fn = "fetch_emails"
    /\ frame[c].at = "list"
    /\ frame' = [frame EXCEPT ![c] = RaisedFrom(frame[c], "Failed to fetch email threads")]
    /\ UNCHANGED <<tasks, order, heap, now, wk, held>>

\* Lines 180-240: one pass of the loop over threads.  An exception of the get call or
\* of the extraction is logged and the loop goes on with the next conversation; what
\* was appended before the exception stays in all_messages.
ThreadStep(c) ==
    /\ frame[c].fn = "fetch_emails"
    /\ frame[c].at = "threads"
    /\ frame' = [frame EXCEPT ![c] =
           [frame[c] EXCEPT
               !.all_messages = @ \o Extracted(frame[c].i, frame[c].threads[frame[c].i]),
               !.i = @ + 1,
               !.at = IF frame[c].i = Len(frame[c].threads) THEN "rerank" ELSE "threads"]]
    /\ UNCHANGED <<tasks, order, heap, now, wk, held>>

NextFetch ==
    \E c \in Readers :
        CallerFetch(c) \/ ThreadsList(c) \/ ThreadsListFails(c) \/ ThreadStep(c) \/ Rerank(c)

SpecFetch == Init /\ [][NextFetch]_vars

(***************************************************************************)
(* Properties of fetch_emails.                                             *)
(***************************************************************************)
\* c's call of fetch_emails has made its list call.
Listed(c) ==
    \/ frame[c].fn = "fetch_emails" /\ frame[c].at \in {"threads", "rerank"}
    \/ /\ frame[c].fn \in {"returned", "raised"}
       /\ "call" \in DOMAIN frame[c]
       /\ frame[c].call.fn = "fetch_emails"
       /\ frame[c].call.at \in {"threads", "rerank"}

FetchFrame(c) == IF frame[c].fn = "fetch_emails" THEN frame[c] ELSE frame[c].call

\* C32: for a requested conversation count L the number of conversations requested
\* from the source is min(3 * L, 100): at least 3 * L unless that is above the
\* ceiling 100, and never more than 100.
C32_OverFetchCapped ==
    \A c \in Callers : Listed(c) =>
        LET L == FetchFrame(c).max_results
            fetch_limit == FetchFrame(c).fetch_limit
        IN  /\ fetch_limit <= 100
            /\ 3 * L <= 100 => fetch_limit = 3 * L
            /\ 3 * L > 100 => fetch_limit = 100
            /\ Len(FetchFrame(c).threads) <= fetch_limit

\* A list call for 34 requested conversations: 3 * 34 = 102 is cut to 100.
C32_Witness ==
    \E c \in Callers :
        /\ Listed(c)
        /\ FetchFrame(c).max_results = 34
        /\ FetchFrame(c).fetch_limit = 100

\* c's call of fetch_emails, having made its list call, is over / has returned.
FetchDone(c) == Listed(c) /\ frame[c].fn \in {"returned", "raised"}

FetchReturned(c) == Listed(c) /\ frame[c].fn = "returned"

\* C36: every conversation in the output of fetch_emails is complete: it has exactly
\* total_in_thread items, with the positions 1..total_in_thread; and a conversation
\* whose detail fetch or parse failed, also after some of its items were extracted,
\* has no item in the output.
C36_ConversationsComplete ==
    \A c \in Callers : FetchReturned(c) =>
        LET out == frame[c].value
            threads == frame[c].call.threads
        IN  /\ \A t \in Elements(ConversationIds(out)) :
                   LET msgs == MessagesOf(out, t)
                   IN  /\ Len(msgs) = msgs[1].total_in_thread
                       /\ \A k \in 1..Len(msgs) : msgs[k].message_number = k
            /\ \A i \in 1..Len(threads) :
                   ThreadFails(threads[i]) => i \notin Elements(ConversationIds(out))

\* C36 for the conversations whose get call raised or whose first message made the
\* extraction raise: they have no item in the output.
C36_FailedBeforeFirstItemAbsent ==
    \A c \in Callers : FetchReturned(c) =>
        \A i \in 1..Len(frame[c].call.threads) :
            (ThreadFails(frame[c].call.threads[i])
                /\ ParsedPrefix(frame[c].call.threads[i].messages) = 0)
            => i \notin Elements(ConversationIds(frame[c].value))

\* C37: a failure while fetching or parsing the detail of one conversation does not
\* make fetch_emails raise; the conversations that did not fail are still returned
\* (all of them when the requested count covers the fetched conversations); and if
\* every conversation fails, fetch_emails returns an empty sequence.
C37_ThreadFailureContained ==
    \A c \in Callers : FetchDone(c) =>
        LET threads == frame[c].call.threads
            failed == {i \in 1..Len(threads) : ThreadFails(threads[i])}
        IN  failed # {} =>
                /\ frame[c].fn = "returned"
                /\ Len(threads) <= frame[c].call.max_results =>
                       \A i \in (1..Len(threads)) \ failed :
                           MessagesOf(frame[c].value, i) = Extracted(i, threads[i])
                /\ failed = 1..Len(threads) => frame[c].value = <<>>

\* C37 with the last clause for the conversations that failed before an item of
\* theirs was extracted.
C37_ThreadFailureContainedBeforeFirstItem ==
    \A c \in Callers : FetchDone(c) =>
        LET threads == frame[c].call.threads
            failed == {i \in 1..Len(threads) : ThreadFails(threads[i])}
        IN  failed # {} =>
                /\ frame[c].fn = "returned"
                /\ Len(threads) <= frame[c].call.max_results =>
                       \A i \in (1..Len(threads)) \ failed :
                           MessagesOf(frame[c].value, i) = Extracted(i, threads[i])
                /\ (\A i \in 1..Len(threads) :
                        ThreadFails(threads[i]) /\ ParsedPrefix(threads[i].messages) = 0)
                   => frame[c].value = <<>>

(***************************************************************************)
(* Properties of the result records, of the progress and of the frame of   *)
(* a run.                                                                   *)
(***************************************************************************)
\* The keys both kinds of record carry: batch ordinal, total batch count, item count,
\* distinct-conversation count, and the time the record was made.
CommonKeys ==
    {"batch_number", "total_batches", "messages_in_batch", "thread_count_in_batch",
     "processed_at"}

SuccessShape(r) == DOMAIN r = CommonKeys \cup {"analysis", "raw_markdown", "original_emails"}

FailureShape(r) == DOMAIN r = CommonKeys \cup {"error"}

\* C33: every result record has exactly one of two shapes, a success record (analysis,
\* raw markdown and item snapshot, no error) or a failure record (error, and none of
\* the three); both carry batch ordinal, total batch count, item count and
\* distinct-conversation count; and a record never changes after it is appended.
C33_RecordShapesStable ==
    [][\A t \in TaskIds : t \in DOMAIN tasks' =>
        LET after == heap'[tasks'[t].results]
        IN  /\ \A i \in 1..Len(after) : SuccessShape(after[i]) \/ FailureShape(after[i])
            /\ t \in DOMAIN tasks =>
                   /\ Len(Results(t)) <= Len(after)
                   /\ \A i \in 1..Len(Results(t)) : after[i] = Results(t)[i]]_vars

\* A run is over with a failure record followed by a success record.
C33_Witness ==
    \E t \in TaskIds :
        /\ HasTask(t) /\ wk[t].pc = "done" /\ Len(Results(t)) = 2
        /\ FailureShape(Results(t)[1]) /\ SuccessShape(Results(t)[2])
        /\ Results(t)[1].batch_number = 1 /\ Results(t)[2].batch_number = 2

\* C34: in every reachable state of a task with progress k/N: k <= N, k is at most
\* the number of result records, k never decreases during the run, and N, 0 in a new
\* task, is the batch count from the first progress update on and never changes again.
C34_ProgressMonotone ==
    [][\A t \in TaskIds : t \in DOMAIN tasks' =>
        LET after == tasks'[t].progress
        IN  /\ after.done <= after.total
            /\ after.done <= Len(heap'[tasks'[t].results])
            /\ after.total \in {0, wk'[t].total}
            /\ t \in DOMAIN tasks =>
                   /\ tasks[t].progress.done <= after.done
                   /\ tasks[t].progress.total # 0 => after.total = tasks[t].progress.total]_vars

\* Progress 1/3 with two records: batch 1 recorded and counted, batch 2 recorded.
C34_Witness ==
    \E t \in TaskIds :
        /\ HasTask(t)
        /\ tasks[t].progress = Progress(1, 3)
        /\ Len(Results(t)) = 2

\* C38: a failure while a debug file of a batch is written is contained like a stage
\* failure: the batch gets a failure record with the error, also when its stages had
\* succeeded, the other batches still run, and the run ends completed with a record
\* per batch; a failure while the fetched messages are written, before the loop, ends
\* the task failed with that error and no result record.
C38_DebugWriteFailures ==
    \A t \in TaskIds : HasTask(t) =>
        LET w == wk[t]
            res == Results(t)
        IN  /\ \A i \in DOMAIN w.raised : (w.raised[i] = "io_error" /\ PastBatch(w, i)) =>
                   /\ Len(res) >= i
                   /\ FailureShape(res[i]) /\ res[i].error = "io_error"
                   /\ \A j \in 1..Len(res) : (j # i /\ j \notin DOMAIN w.raised) =>
                          SuccessShape(res[j])
            /\ (w.pc = "done" /\ \E i \in DOMAIN w.raised : w.raised[i] = "io_error") =>
                   /\ tasks[t].status = "completed"
                   /\ Len(res) = w.total
            /\ (w.exc = "io_error" /\ w.batch_num = 0) =>
                   /\ w.total = 0 /\ res = <<>>
                   /\ w.pc = "call" => w.site = "failed"
                   /\ w.pc = "done" =>
                          tasks[t].status = "failed" /\ tasks[t].error = "io_error"

\* A run of three batches is over: the parsed text of batch 2 could not be written
\* after its three stages had returned, batches 1 and 3 have success records.
C38_Witness ==
    \E t \in TaskIds :
        /\ HasTask(t) /\ wk[t].pc = "done" /\ wk[t].total = 3
        /\ wk[t].raised = (2 :> "io_error") /\ 2 \in wk[t].degraded
        /\ FailureShape(Results(t)[2]) /\ Results(t)[2].error = "io_error"
        /\ SuccessShape(Results(t)[1]) /\ SuccessShape(Results(t)[3])
        /\ tasks[t].status = "completed"

\* The fetched messages could not be written: the run is over, failed, without records.
C38_WitnessBeforeLoop ==
    \E t \in TaskIds :
        /\ HasTask(t) /\ wk[t].pc = "done" /\ wk[t].exc = "io_error"
        /\ wk[t].emails # <<>> /\ wk[t].total = 0
        /\ tasks[t].status = "failed" /\ Results(t) = <<>>

(***************************************************************************)
(* SpecTwo: two requests served concurrently, each by its own worker.  The  *)
(* requests ask for one conversation, with a configured prompt, and a batch *)
(* size of 2 (t1) or 3 (t2).                                                *)
(***************************************************************************)
\* main.py, start_analysis, for the requests of SpecTwo.
StartAnalysisTwo(t) ==
    /\ wk[t].pc = "idle"
    /\ LET batch_size == IF t = "t1" THEN 2 ELSE 3
       IN  /\ CreateTask(t, "sender", 1, batch_size)
           /\ wk' = [wk EXCEPT ![t] = [IdleWorker EXCEPT !.pc = "fetch",
                                                         !.email_limit = 1,
                                                         !.batch_size = batch_size]]
    /\ UNCHANGED <<now, frame, held>>

NextTwo == \E t \in TaskIds : StartAnalysisTwo(t) \/ Worker(t) \/ StoreStep(t)

SpecTwo == Init /\ [][NextTwo]_vars

\* C35: a run for task T changes only T's record.  With two tasks running
\* concurrently, a step in which the worker of a task does not move (the step is the
\* other worker's) leaves that task's record and result list as they are; and no step
\* changes the task id, source id, item limit, batch size or creation timestamp of a
\* record.
C35_RunChangesOwnRecordOnly ==
    [][\A t \in TaskIds :
        /\ (wk'[t] = wk[t] /\ frame'[t] = frame[t]) =>
               /\ (t \in DOMAIN tasks) = (t \in DOMAIN tasks')
               /\ t \in DOMAIN tasks =>
                      /\ tasks'[t] = tasks[t]
                      /\ heap'[tasks'[t].results] = heap[tasks[t].results]
        /\ (t \in DOMAIN tasks /\ t \in DOMAIN tasks') =>
               /\ tasks'[t].task_id = tasks[t].task_id
               /\ tasks'[t].sender_id = tasks[t].sender_id
               /\ tasks'[t].email_limit = tasks[t].email_limit
               /\ tasks'[t].batch_size = tasks[t].batch_size
               /\ tasks'[t].created_at = tasks[t].created_at]_vars

\* Both runs are under way: t1 has recorded a batch and is in its second progress
\* update, t2 is processing with no record yet.
C35_Witness ==
    /\ HasTask("t1") /\ HasTask("t2")
    /\ wk["t1"].pc = "call" /\ wk["t1"].site = "batch_progress"
    /\ frame["t1"].fn = "update_task" /\ frame["t1"].at = "stamp"
    /\ tasks["t1"].progress = Progress(1, 2)
    /\ wk["t2"].pc = "stage2" /\ tasks["t2"].status = "processing"
    /\ Results("t2") = <<>>

====
